---- MODULE Spec2Model ----
(***************************************************************************)
(* Multi-tenant RBAC core of SaaS-IA: the role resolver, the permission    *)
(* evaluator and the server actions that mutate members of a company       *)
(* (createUser, updateUserRole, deleteUser) and import CSV rows.           *)
(*                                                                         *)
(* The store is the Supabase schema of migration 002: auth.users,          *)
(* companies, profiles (with their foreign keys, cascades and row level    *)
(* security policies) and the sales / expenses tables.  A server action is *)
(* an async function: each await of a remote call (an identity-provider    *)
(* call or one PostgREST statement) is one atomic step of the process that *)
(* runs it, together with the synchronous code that follows it up to the   *)
(* next await.  Every remote call may fail (err), as the code's own error  *)
(* branches provide for.                                                   *)
(*                                                                         *)
(* Spec     one process: calls run one at a time.                          *)
(* SpecConc NumProcs processes: the steps of their updateUserRole and      *)
(*          deleteUser calls interleave.                                   *)
(* SpecAll  one process, the CSV imports among its calls.                  *)
(* SpecEval the evaluator and the route guards alone, over stores that     *)
(*          also hold role values outside {admin, user}.                   *)
(* SpecNav  one process: page requests (middleware, DashboardPage,         *)
(*          HomePage) and ensureUserProfile calls, one at a time; a        *)
(*          request in progress keeps being served.                        *)
(* SpecMix  NumProcs processes: ensureUserProfile, createUser,             *)
(*          updateUserRole and deleteUser calls interleave.                *)
(***************************************************************************)
EXTENDS Integers, Sequences, FiniteSets, TLC

\* ------------------------------------------------------------------ bounds
\* identities that createUser may add to the initial ones
MaxCreate == 1
\* concurrent server-action invocations in SpecConc
NumProcs == 2
\* calls started in a behaviour of SpecConc
MaxCalls == 2
\* valid rows of one CSV file, and rows the two financial tables hold
MaxRows == 1
\* companies ensureUserProfile may still add
MaxCompanies == 2
\* updateUserRole / deleteUser calls between the evaluator calls of SpecFresh
MaxChanges == 1
\* identities signUp may add to the empty store
MaxSignUps == 2

\* ------------------------------------------------------- program constants
MinPasswordLength == 6

ROLES == [ADMIN |-> "admin", USER |-> "user"]

PERMISSIONS ==
  [ DASHBOARD_VIEW        |-> "dashboard:view",
    FINANCIAL_DATA_VIEW   |-> "financial_data:view",
    FINANCIAL_DATA_CREATE |-> "financial_data:create",
    FINANCIAL_DATA_UPDATE |-> "financial_data:update",
    FINANCIAL_DATA_DELETE |-> "financial_data:delete",
    CSV_UPLOAD            |-> "csv:upload",
    AI_QUERY              |-> "ai:query",
    AI_ACCESS             |-> "ai:access",
    ADMIN_PANEL           |-> "admin:panel",
    USER_MANAGE           |-> "user:manage" ]

ALL_PERMISSIONS == { PERMISSIONS[k] : k \in DOMAIN PERMISSIONS }

ROLE_PERMISSIONS ==
  [ admin |-> << PERMISSIONS.DASHBOARD_VIEW, PERMISSIONS.FINANCIAL_DATA_VIEW,
                 PERMISSIONS.FINANCIAL_DATA_CREATE, PERMISSIONS.FINANCIAL_DATA_UPDATE,
                 PERMISSIONS.FINANCIAL_DATA_DELETE, PERMISSIONS.CSV_UPLOAD,
                 PERMISSIONS.AI_QUERY, PERMISSIONS.AI_ACCESS,
                 PERMISSIONS.ADMIN_PANEL, PERMISSIONS.USER_MANAGE >>,
    user  |-> << PERMISSIONS.DASHBOARD_VIEW, PERMISSIONS.FINANCIAL_DATA_VIEW,
                 PERMISSIONS.CSV_UPLOAD, PERMISSIONS.AI_QUERY,
                 PERMISSIONS.AI_ACCESS >> ]

\* ---------------------------------------------------------------- values
\* uuids, one namespace per table; Blank is the empty / absent id
U(n) == <<"u", n>>
P(n) == <<"p", n>>
C(n) == <<"c", n>>
Blank == <<"", 0>>
NoUser == Blank

\* what getUserRole returns for "no role"
NoRole == "<null>"

\* an e-mail address is a sequence of characters
Mail(c) == <<c, "@", "x", ".", "c">>

VARIABLES
  authUsers,   \* auth.users: set of [id, email]
  companies,   \* public.companies: set of [id, owner_id]
  profiles,    \* public.profiles: set of [id, user_id, company_id, role]
  sales,       \* public.sales: rows per company id
  expenses,    \* public.expenses: rows per company id
  nextUid,     \* next fresh auth.users id
  nextPid,     \* next fresh profiles id
  nextCid,     \* next fresh companies id
  binding,     \* which of the two definitions in actions.ts the exports bind to
  calls,       \* per process: the server action it runs, its locals and outcome
  started      \* calls started so far (counted in SpecConc only)

vars == <<authUsers, companies, profiles, sales, expenses, nextUid, nextPid,
          nextCid, binding, calls, started>>

db == <<authUsers, companies, profiles, sales, expenses, nextUid, nextPid, nextCid>>

\* ------------------------------------------------------ permission table
\* variant: a lookup that reads the admin entry whatever the role
roleHasPermissionOfAdmin(role, permission) ==
  \E i \in DOMAIN ROLE_PERMISSIONS.admin : ROLE_PERMISSIONS.admin[i] = permission

roleHasPermission(role, permission) ==
  \E i \in DOMAIN ROLE_PERMISSIONS[role] : ROLE_PERMISSIONS[role][i] = permission

roleHasAllPermissions(role, requiredPermissions) ==
  \A i \in DOMAIN requiredPermissions : roleHasPermission(role, requiredPermissions[i])

roleHasAnyPermission(role, requiredPermissions) ==
  \E i \in DOMAIN requiredPermissions : roleHasPermission(role, requiredPermissions[i])

\* ------------------------------------------------- row level security (002)
\* companies in which uid holds an admin profile (the policies' subquery)
AdminCompaniesOf(uid) ==
  { p.company_id : p \in { q \in profiles : q.user_id = uid /\ q.role = "admin" } }

\* "Users can view own profile" OR "Admins can view profiles from same company"
ProfileSelectPolicy(uid, row) ==
  row.user_id = uid \/ row.company_id \in AdminCompaniesOf(uid)

\* "Users can create own profile" OR "Admins can create profiles for same company"
ProfileInsertPolicy(uid, row) ==
  row.user_id = uid \/ row.company_id \in AdminCompaniesOf(uid)

\* "Users can update own profile" OR "Admins can update profiles from same company"
ProfileUpdatePolicy(uid, row) ==
  row.user_id = uid \/ row.company_id \in AdminCompaniesOf(uid)

\* "Users can view own company" OR "Users can view company through profile"
CompanySelectPolicy(uid, row) ==
  row.owner_id = uid
  \/ row.id \in { p.company_id : p \in { q \in profiles : q.user_id = uid } }

\* "Users can create own company"
CompanyInsertPolicy(uid, row) == row.owner_id = uid

\* companies has row level security enabled and no policy FOR DELETE: no row
\* is visible to a DELETE
CompanyDeletePolicy(uid, row) == FALSE

\* "Users can create sales/expenses for own company"
FinancialInsertPolicy(uid, company_id) ==
  company_id \in { p.company_id : p \in { q \in profiles : q.user_id = uid } }

\* ------------------------------------------------------------ identity
\* supabase.auth.getUser(): the session's user, if the identity still exists
GetUser(caller, err) ==
  IF err \/ caller = NoUser \/ ~(\E a \in authUsers : a.id = caller)
  THEN NoUser
  ELSE caller

\* ON DELETE CASCADE of auth.users: companies.owner_id, profiles.user_id,
\* then profiles / sales / expenses .company_id of the companies removed
CompaniesAfterDelete(uid) == { c \in companies : c.owner_id # uid }

ProfilesAfterDelete(uid) ==
  { p \in profiles :
      /\ p.user_id # uid
      /\ \E c \in CompaniesAfterDelete(uid) : c.id = p.company_id }

RowsAfterDelete(table, uid) ==
  [ c \in DOMAIN table |->
      IF \E k \in CompaniesAfterDelete(uid) : k.id = c THEN table[c] ELSE 0 ]

\* ---------------------------------------------------------- role resolver
NoProfile == [found |-> FALSE, profile |-> Blank, company |-> Blank]

\* getUserProfile(): the caller's profile joined with its company, or null
GetUserProfile(caller, err) ==
  LET user == GetUser(caller, FALSE)
      rows == { p \in profiles : p.user_id = user /\ ProfileSelectPolicy(user, p) }
  IN  IF user = NoUser \/ err \/ Cardinality(rows) # 1
      THEN NoProfile
      ELSE LET p  == CHOOSE q \in rows : TRUE
               cs == { c \in companies : c.id = p.company_id /\ CompanySelectPolicy(user, c) }
           IN  [ found   |-> TRUE,
                 profile |-> p,
                 company |-> IF cs = {} THEN Blank ELSE (CHOOSE c \in cs : TRUE).id ]

\* variant: a resolver that grants role 'user' when there is no profile
GetUserRoleDefaultUser(caller, err) ==
  LET userProfile == GetUserProfile(caller, err)
  IN  IF ~userProfile.found THEN ROLES.USER
      ELSE IF userProfile.profile.role = ROLES.ADMIN \/ userProfile.profile.role = ROLES.USER
           THEN userProfile.profile.role
           ELSE NoRole

\* variant: a resolver that coerces an unknown stored role to 'user'
GetUserRoleCoerced(caller, err) ==
  LET userProfile == GetUserProfile(caller, err)
  IN  IF ~userProfile.found THEN NoRole
      ELSE IF userProfile.profile.role = ROLES.ADMIN \/ userProfile.profile.role = ROLES.USER
           THEN userProfile.profile.role
           ELSE ROLES.USER

\* getUserRole(): the stored role when it is a Role, else null
GetUserRole(caller, err) ==
  LET userProfile == GetUserProfile(caller, err)
  IN  IF ~userProfile.found THEN NoRole
      ELSE IF userProfile.profile.role = ROLES.ADMIN \/ userProfile.profile.role = ROLES.USER
           THEN userProfile.profile.role
           ELSE NoRole

\* ------------------------------------------------------------- evaluator
CheckPermission(caller, permission, err) ==
  LET role == GetUserRole(caller, err)
  IN  IF role = NoRole THEN FALSE ELSE roleHasPermission(role, permission)

\* variant: one permission of the list is enough
CheckAllPermissionsSome(caller, permissions, err) ==
  LET role == GetUserRole(caller, err)
  IN  IF role = NoRole THEN FALSE ELSE roleHasAnyPermission(role, permissions)

CheckAllPermissions(caller, permissions, err) ==
  LET role == GetUserRole(caller, err)
  IN  IF role = NoRole THEN FALSE ELSE roleHasAllPermissions(role, permissions)

CheckAnyPermission(caller, permissions, err) ==
  LET role == GetUserRole(caller, err)
  IN  IF role = NoRole THEN FALSE ELSE roleHasAnyPermission(role, permissions)

\* variant: a requirePermission that never throws
RequirePermissionOff(caller, permission, err) == "ok"

\* requirePermission(): "ok", or "throw" for the Error it raises
RequirePermission(caller, permission, err) ==
  IF CheckPermission(caller, permission, err) THEN "ok" ELSE "throw"

\* requireAllPermissions(): "ok", or "throw" for the Error it raises
RequireAllPermissions(caller, permissions, err) ==
  IF CheckAllPermissions(caller, permissions, err) THEN "ok" ELSE "throw"

\* variant: the list guard asks for every permission of the list
RequireAnyRoutePermissionAll(caller, permissions, err) ==
  IF CheckAllPermissions(caller, permissions, err) THEN "" ELSE "/dashboard"

\* requireRoutePermission(): "" when it returns, else the path it redirects to
RequireRoutePermission(caller, permission, err) ==
  IF CheckPermission(caller, permission, err) THEN "" ELSE "/dashboard"

\* requireAnyRoutePermission()
RequireAnyRoutePermission(caller, permissions, err) ==
  IF CheckAnyPermission(caller, permissions, err) THEN "" ELSE "/dashboard"

\* ------------------------------------------------------- input validation
\* String.prototype.trim(), over the one whitespace character of the inputs
RECURSIVE TrimStart(_)
TrimStart(s) ==
  IF s # <<>> /\ Head(s) = " " THEN TrimStart(Tail(s)) ELSE s

RECURSIVE TrimEnd(_)
TrimEnd(s) ==
  IF s # <<>> /\ s[Len(s)] = " " THEN TrimEnd(SubSeq(s, 1, Len(s) - 1)) ELSE s

Trim(s) == TrimEnd(TrimStart(s))

\* String.prototype.toLowerCase(), over the letters of the inputs
LowerChar(c) == IF c = "N" THEN "n" ELSE IF c = "X" THEN "x" ELSE c

ToLowerCase(s) == [ i \in DOMAIN s |-> LowerChar(s[i]) ]

\* email?.trim().toLowerCase()
TrimmedEmail(email) == ToLowerCase(Trim(email))

\* /^[^\s@]+@[^\s@]+\.[^\s@]+$/.test(s)
EmailRegexTest(s) ==
  \E i \in DOMAIN s : \E j \in DOMAIN s :
    /\ s[i] = "@" /\ s[j] = "."
    /\ 1 < i /\ i + 1 < j /\ j < Len(s)
    /\ \A k \in DOMAIN s : k # i => s[k] \notin {" ", "@"}

ValidRole(role) == role = ROLES.ADMIN \/ role = ROLES.USER

\* createUser, lines 178-195: "" when the input passes
ValidateCreateUser(email, password, role) ==
  IF TrimmedEmail(email) = <<>> THEN "email_required"
  ELSE IF ~EmailRegexTest(TrimmedEmail(email)) THEN "email_invalid"
  ELSE IF password < MinPasswordLength THEN "password_short"
  ELSE IF ~ValidRole(role) THEN "role_invalid"
  ELSE ""

\* createUser, second definition, lines 591-601
ValidateCreateUserFase7(email, password, role) ==
  IF email = <<>> \/ password = 0 THEN "email_required"
  ELSE IF password < MinPasswordLength THEN "password_short"
  ELSE IF ~ValidRole(role) THEN "role_invalid"
  ELSE ""

\* updateUserRole, lines 288-294 and 674-680 (trim() only in the first)
ValidateUpdateUserRole(profileId, newRole) ==
  IF profileId = Blank THEN "id_required"
  ELSE IF ~ValidRole(newRole) THEN "role_invalid"
  ELSE ""

\* deleteUser, lines 392-394 and 743-745
ValidateDeleteUser(userId) ==
  IF userId = Blank THEN "id_required" ELSE ""

\* importSalesFromCSV / importExpensesFromCSV, lines 51-70: the file field
ValidateImportFile(file) ==
  IF file = "" THEN "no_file"
  ELSE IF file # "csv" THEN "not_csv"
  ELSE ""

\* ----------------------------------------------------------------- inputs
\* " N@X.c " is new and needs trim() and toLowerCase(); "1@x.c" is user 1's
NewEmail == <<" ", "N", "@", "X", ".", "c", " ">>

\* createUser(email, password, role): the valid calls, then one invalid
\* argument at a time
CreateUserInputs ==
  { <<NewEmail, MinPasswordLength, role>> : role \in { ROLES.ADMIN, ROLES.USER } }
  \cup { <<email, MinPasswordLength, ROLES.USER>> :
            email \in { <<>>, <<" ">>, <<"n", "x", ".", "c">>, Mail("1") } }
  \cup { <<NewEmail, password, ROLES.USER>> : password \in { 0, MinPasswordLength - 1 } }
  \cup { <<NewEmail, MinPasswordLength, "owner">> }

\* updateUserRole(profileId, newRole): every profile id issued so far
UpdateUserRoleInputs ==
  { <<P(n), role>> : n \in 1..(nextPid - 1), role \in { ROLES.ADMIN, ROLES.USER } }
  \cup { <<Blank, ROLES.USER>>, <<P(1), "owner">> }

\* deleteUser(userId): every identity id issued so far
DeleteUserInputs == { Blank } \cup { U(n) : n \in 1..(nextUid - 1) }

\* the file field and the number of valid rows parsed from it
ImportInputs == { <<"", 0>>, <<"txt", 0>> } \cup { <<"csv", n>> : n \in 0..MaxRows }

\* sessions: unauthenticated, or an existing identity
Callers == { NoUser } \cup { a.id : a \in authUsers }

\* ------------------------------------------------------------------ calls
Procs == 1..NumProcs

\* calls of Spec run on one process
SeqProcs == { 1 }

NoTarget == [user_id |-> Blank, company_id |-> Blank, role |-> ""]

Snapshot ==
  [authUsers |-> authUsers, companies |-> companies, profiles |-> profiles,
   sales |-> sales, expenses |-> expenses]

NoSnapshot ==
  [authUsers |-> {}, companies |-> {}, profiles |-> {},
   sales |-> <<>>, expenses |-> <<>>]

\* n numbers the call; fault, guard, sawWrites and rollback record what the
\* call has observed and done so far
IdleCall ==
  [ op |-> "", pc |-> "idle", n |-> 0, caller |-> NoUser,
    id |-> Blank, email |-> <<>>, password |-> 0, role |-> "",
    file |-> "", rows |-> 0, permission |-> "", permissions |-> <<>>,
    location |-> "", ensured |-> "", profileId |-> Blank,
    granted |-> FALSE, company |-> Blank, actor |-> Blank,
    target |-> NoTarget, user |-> NoUser, newUid |-> Blank,
    writes |-> {}, audit |-> <<>>, reval |-> <<>>,
    fault |-> FALSE, guard |-> "", sawWrites |-> {}, rollback |-> "",
    logged |-> FALSE,
    result |-> "", pre |-> NoSnapshot ]

AdminOps == { "createUser", "updateUserRole", "deleteUser" }

ImportOps == { "importSalesFromCSV", "importExpensesFromCSV" }

\* the permission each server action requires on its first line
RequiredPermission(op) ==
  IF op \in ImportOps THEN PERMISSIONS.CSV_UPLOAD ELSE PERMISSIONS.USER_MANAGE

\* the call returns (or throws): its outcome stays readable until the
\* process starts its next call
Return(p, code) ==
  calls' = [calls EXCEPT ![p].pc = "done", ![p].result = code]

\* the same, after a step whose remote call failed (err) or not
ReturnOn(p, err, code) ==
  calls' = [calls EXCEPT ![p].pc = "done", ![p].result = code, ![p].fault = @ \/ err]

Goto(p, label) ==
  calls' = [calls EXCEPT ![p].pc = label]

Free(p) == calls[p].pc = "idle"

Invoke(p, call) ==
  /\ Free(p)
  /\ calls' = [calls EXCEPT ![p] =
       [call EXCEPT !.pc = "perm", !.n = started, !.pre = Snapshot]]
  /\ UNCHANGED <<db, binding>>

StartCreateUser(p) ==
  \E caller \in Callers, in \in CreateUserInputs :
    Invoke(p, [IdleCall EXCEPT !.op = "createUser", !.caller = caller,
                 !.email = in[1], !.password = in[2], !.role = in[3]])

StartUpdateUserRole(p) ==
  \E caller \in Callers, in \in UpdateUserRoleInputs :
    Invoke(p, [IdleCall EXCEPT !.op = "updateUserRole", !.caller = caller,
                 !.id = in[1], !.role = in[2]])

StartDeleteUser(p) ==
  \E caller \in Callers, userId \in DeleteUserInputs :
    Invoke(p, [IdleCall EXCEPT !.op = "deleteUser", !.caller = caller,
                 !.id = userId])

StartImport(p) ==
  \E op \in ImportOps, caller \in Callers, in \in ImportInputs :
    Invoke(p, [IdleCall EXCEPT !.op = op, !.caller = caller,
                 !.file = in[1], !.rows = in[2]])

\* the response has been delivered: the process is free for the next call
Respond(p) ==
  /\ calls[p].pc = "done"
  /\ calls' = [calls EXCEPT ![p] = IdleCall]
  /\ UNCHANGED <<db, binding, started>>

\* -------------------------------------------------------- effects of a call
\* logAdminAction(action, adminUserId, targetUserId, details): console.log
AuditRecord(action, adminUserId, targetUserId, oldRole, newRole, companyId) ==
  [ action |-> action, adminUserId |-> adminUserId, targetUserId |-> targetUserId,
    oldRole |-> oldRole, newRole |-> newRole, companyId |-> companyId ]

\* the tail of a successful admin action: audit (first definitions only),
\* revalidatePath('/admin/users'), return { success: true }
Succeed(p, wrote, record) ==
  calls' = [calls EXCEPT
    ![p].pc = "done",
    ![p].result = "ok",
    ![p].writes = @ \cup wrote \cup
                  (IF binding = "fase9" THEN {"audit", "revalidate"} ELSE {"revalidate"}),
    ![p].audit = IF binding = "fase9" THEN Append(@, record) ELSE @,
    ![p].reval = Append(@, "/admin/users")]

\* ------------------------------------------------- steps of a server action
\* await requirePermission(...), then the input validations
PermStep(p) ==
  /\ calls[p].pc = "perm"
  /\ \E err \in BOOLEAN :
       LET c == calls[p]
           permission == RequiredPermission(c.op)
           invalid ==
             IF c.op = "createUser"
             THEN IF binding = "fase9"
                  THEN ValidateCreateUser(c.email, c.password, c.role)
                  ELSE ValidateCreateUserFase7(c.email, c.password, c.role)
             ELSE IF c.op = "updateUserRole" THEN ValidateUpdateUserRole(c.id, c.role)
             ELSE IF c.op = "deleteUser" THEN ValidateDeleteUser(c.id)
             ELSE ValidateImportFile(c.file)
       IN  IF RequirePermission(c.caller, permission, err) = "throw"
           THEN ReturnOn(p, err, "denied")
           ELSE calls' = [calls EXCEPT
                  ![p].fault = @ \/ err,
                  ![p].granted = CheckPermission(c.caller, permission, err),
                  ![p].pc = IF invalid = "" THEN "profile" ELSE "done",
                  ![p].result = invalid]
  /\ UNCHANGED <<db, binding, started>>

\* const adminProfile = await getUserProfile()
ProfileStep(p) ==
  /\ calls[p].pc = "profile"
  /\ \E err \in BOOLEAN :
       LET c == calls[p]
           adminProfile == GetUserProfile(c.caller, err)
           needsCompany == c.op \in ImportOps \/ (c.op = "createUser" /\ binding = "fase9")
           next == IF c.op = "createUser" THEN "createIdentity"
                   ELSE IF c.op \in ImportOps THEN "insert"
                   ELSE "fetch"
       IN  IF ~adminProfile.found THEN ReturnOn(p, err, "no_account")
           ELSE IF needsCompany /\ adminProfile.company = Blank THEN ReturnOn(p, err, "no_company")
           ELSE IF c.op \in ImportOps /\ c.rows = 0 THEN ReturnOn(p, err, "no_valid_rows")
           ELSE calls' = [calls EXCEPT
                  ![p].fault = @ \/ err,
                  ![p].company = adminProfile.company,
                  ![p].actor = adminProfile.profile.user_id,
                  ![p].pc = next]
  /\ UNCHANGED <<db, binding, started>>

\* variant: the target is fetched with no row level security and no tenant
\* isolation check
FetchStepUnscoped(p) ==
  /\ calls[p].pc = "fetch"
  /\ \E err \in BOOLEAN :
       LET c == calls[p]
           rows == { q \in profiles :
                       IF c.op = "updateUserRole" THEN q.id = c.id ELSE q.user_id = c.id }
           targetProfile == CHOOSE q \in rows : TRUE
           next == IF c.op = "updateUserRole" /\ binding = "fase7" THEN "update"
                   ELSE "getUser"
       IN  IF err \/ Cardinality(rows) # 1 THEN ReturnOn(p, err, "not_found")
           ELSE calls' = [calls EXCEPT
                  ![p].fault = @ \/ err,
                  ![p].target = [user_id |-> targetProfile.user_id,
                                 company_id |-> targetProfile.company_id,
                                 role |-> targetProfile.role],
                  ![p].pc = next]
  /\ UNCHANGED <<db, binding, started>>

\* variant: the target is fetched past row level security (service role),
\* the tenant isolation check kept
FetchStepServiceRole(p) ==
  /\ calls[p].pc = "fetch"
  /\ \E err \in BOOLEAN :
       LET c == calls[p]
           rows == { q \in profiles :
                       IF c.op = "updateUserRole" THEN q.id = c.id ELSE q.user_id = c.id }
           targetProfile == CHOOSE q \in rows : TRUE
           next == IF c.op = "updateUserRole" /\ binding = "fase7" THEN "update"
                   ELSE "getUser"
       IN  IF err \/ Cardinality(rows) # 1 THEN ReturnOn(p, err, "not_found")
           ELSE IF c.company = Blank THEN ReturnOn(p, err, "unexpected")
           ELSE IF targetProfile.company_id # c.company THEN ReturnOn(p, err, "not_permitted")
           ELSE calls' = [calls EXCEPT
                  ![p].fault = @ \/ err,
                  ![p].target = [user_id |-> targetProfile.user_id,
                                 company_id |-> targetProfile.company_id,
                                 role |-> targetProfile.role],
                  ![p].pc = next]
  /\ UNCHANGED <<db, binding, started>>

\* supabase.from('profiles').select(...).eq(key, id).single(), then the
\* tenant isolation check
FetchStep(p) ==
  /\ calls[p].pc = "fetch"
  /\ \E err \in BOOLEAN :
       LET c == calls[p]
           rows == { q \in profiles :
                       /\ IF c.op = "updateUserRole" THEN q.id = c.id ELSE q.user_id = c.id
                       /\ ProfileSelectPolicy(c.caller, q) }
           targetProfile == CHOOSE q \in rows : TRUE
           next == IF c.op = "updateUserRole" /\ binding = "fase7" THEN "update"
                   ELSE "getUser"
       IN  IF err \/ Cardinality(rows) # 1 THEN ReturnOn(p, err, "not_found")
           ELSE IF c.company = Blank THEN ReturnOn(p, err, "unexpected")
           ELSE IF targetProfile.company_id # c.company THEN ReturnOn(p, err, "not_permitted")
           ELSE calls' = [calls EXCEPT
                  ![p].fault = @ \/ err,
                  ![p].target = [user_id |-> targetProfile.user_id,
                                 company_id |-> targetProfile.company_id,
                                 role |-> targetProfile.role],
                  ![p].pc = next]
  /\ UNCHANGED <<db, binding, started>>

\* variant: the test leaves out newRole === ROLES.USER
SelfDemotionAnyNewRole(c, user) ==
  /\ user # NoUser
  /\ c.target.user_id = user
  /\ c.target.role = ROLES.ADMIN

\* if (user && targetProfile.user_id === user.id)
\*   if (targetProfile.role === ROLES.ADMIN && newRole === ROLES.USER)
SelfDemotion(c, user) ==
  /\ user # NoUser
  /\ c.target.user_id = user
  /\ c.target.role = ROLES.ADMIN
  /\ c.role = ROLES.USER

\* const { data: { user } } = await supabase.auth.getUser(), then the
\* self-demotion test (updateUserRole) or the self-deletion guard (deleteUser)
GetUserStep(p) ==
  /\ calls[p].pc = "getUser"
  /\ \E err \in BOOLEAN :
       LET c == calls[p]
           user == GetUser(c.caller, err)
       IN  IF c.op = "updateUserRole"
           THEN calls' = [calls EXCEPT
                  ![p].fault = @ \/ err,
                  ![p].user = user,
                  ![p].pc = IF SelfDemotion(c, user) THEN "guard" ELSE "update"]
           ELSE IF user # NoUser /\ user = c.id THEN ReturnOn(p, err, "self_delete")
           ELSE calls' = [calls EXCEPT
                  ![p].fault = @ \/ err,
                  ![p].user = user,
                  ![p].pc = IF binding = "fase9" /\ c.target.role = ROLES.ADMIN
                            THEN "guard" ELSE "delete"]
  /\ UNCHANGED <<db, binding, started>>

\* variant: the query counts the other members, whatever their role
OtherAdminsAnyRole(caller, company, excluded) ==
  { q \in profiles :
      /\ q.company_id = company
      /\ q.user_id # excluded
      /\ ProfileSelectPolicy(caller, q) }

\* variant: the query leaves out the caller as well
OtherAdminsBesideCaller(caller, company, excluded) ==
  { q \in profiles :
      /\ q.company_id = company
      /\ q.role = ROLES.ADMIN
      /\ q.user_id # excluded /\ q.user_id # caller
      /\ ProfileSelectPolicy(caller, q) }

\* the otherAdmins query: admins of the caller's company other than `excluded`
OtherAdmins(caller, company, excluded) ==
  { q \in profiles :
      /\ q.company_id = company
      /\ q.role = ROLES.ADMIN
      /\ q.user_id # excluded
      /\ ProfileSelectPolicy(caller, q) }

\* the calls of other processes that have written to the store
WritesSeenBy(p) ==
  { calls[q].n : q \in { r \in Procs \ {p} :
                           calls[r].writes \cap {"profile", "identity"} # {} } }

\* variant: if (otherAdmins && otherAdmins.length === 0), which lets a failed
\* query through
GuardStepFailOpen(p) ==
  /\ calls[p].pc = "guard"
  /\ \E err \in BOOLEAN :
       LET c == calls[p]
           excluded == IF c.op = "updateUserRole" THEN c.user ELSE c.id
           otherAdmins == OtherAdmins(c.caller, c.company, excluded)
       IN  IF ~err /\ otherAdmins = {}
           THEN calls' = [calls EXCEPT
                  ![p].guard = "empty",
                  ![p].pc = "done",
                  ![p].result = IF c.op = "updateUserRole" THEN "last_admin_self"
                                ELSE "last_admin"]
           ELSE calls' = [calls EXCEPT
                  ![p].fault = @ \/ err,
                  ![p].guard = IF err THEN "error" ELSE "passed",
                  ![p].sawWrites = WritesSeenBy(p),
                  ![p].pc = IF c.op = "updateUserRole" THEN "update" ELSE "delete"]
  /\ UNCHANGED <<db, binding, started>>

\* if (!otherAdmins || otherAdmins.length === 0) return failure
GuardStep(p) ==
  /\ calls[p].pc = "guard"
  /\ \E err \in BOOLEAN :
       LET c == calls[p]
           excluded == IF c.op = "updateUserRole" THEN c.user ELSE c.id
           otherAdmins == OtherAdmins(c.caller, c.company, excluded)
       IN  IF err \/ otherAdmins = {}
           THEN calls' = [calls EXCEPT
                  ![p].fault = @ \/ err,
                  ![p].guard = IF err THEN "error" ELSE "empty",
                  ![p].pc = "done",
                  ![p].result = IF c.op = "updateUserRole" THEN "last_admin_self"
                                ELSE "last_admin"]
           ELSE calls' = [calls EXCEPT
                  ![p].fault = @ \/ err,
                  ![p].guard = "passed",
                  ![p].sawWrites = WritesSeenBy(p),
                  ![p].pc = IF c.op = "updateUserRole" THEN "update" ELSE "delete"]
  /\ UNCHANGED <<db, binding, started>>

\* supabase.from('profiles').update({ role: newRole }).eq('id', profileId)
\* variant: the update without its .eq('id', userId) filter
UpdateStepEveryRow(p) ==
  /\ calls[p].pc = "update"
  /\ \E err \in BOOLEAN :
       LET c == calls[p]
           rows == { q \in profiles : ProfileUpdatePolicy(c.caller, q) }
           updated == { [q EXCEPT !.role = c.role] : q \in rows }
           checked == \A q \in updated : ProfileUpdatePolicy(c.caller, q)
       IN  IF err \/ ~checked
           THEN /\ ReturnOn(p, err, "update_failed")
                /\ UNCHANGED profiles
           ELSE /\ profiles' = (profiles \ rows) \cup updated
                /\ Succeed(p, {"profile"},
                           AuditRecord("update_role", c.actor, c.target.user_id,
                                       c.target.role, c.role, c.company))
  /\ UNCHANGED <<authUsers, companies, sales, expenses, nextUid, nextPid, nextCid, binding, started>>

UpdateStep(p) ==
  /\ calls[p].pc = "update"
  /\ \E err \in BOOLEAN :
       LET c == calls[p]
           rows == { q \in profiles : q.id = c.id /\ ProfileUpdatePolicy(c.caller, q) }
           updated == { [q EXCEPT !.role = c.role] : q \in rows }
           checked == \A q \in updated : ProfileUpdatePolicy(c.caller, q)
       IN  IF err \/ ~checked
           THEN /\ ReturnOn(p, err, "update_failed")
                /\ UNCHANGED profiles
           ELSE /\ profiles' = (profiles \ rows) \cup updated
                /\ Succeed(p, {"profile"},
                           AuditRecord("update_role", c.actor, c.target.user_id,
                                       c.target.role, c.role, c.company))
  /\ UNCHANGED <<authUsers, companies, sales, expenses, nextUid, nextPid, nextCid, binding, started>>

\* adminClient.auth.admin.deleteUser(userId): service role, cascades
DeleteIdentity(uid) ==
  /\ authUsers' = { a \in authUsers : a.id # uid }
  /\ companies' = CompaniesAfterDelete(uid)
  /\ profiles' = ProfilesAfterDelete(uid)
  /\ sales' = RowsAfterDelete(sales, uid)
  /\ expenses' = RowsAfterDelete(expenses, uid)

DeleteStep(p) ==
  /\ calls[p].pc = "delete"
  /\ \E err \in BOOLEAN :
       LET c == calls[p]
       IN  IF err \/ ~(\E a \in authUsers : a.id = c.id)
           THEN /\ ReturnOn(p, err, "delete_failed")
                /\ UNCHANGED <<authUsers, companies, profiles, sales, expenses>>
           ELSE /\ DeleteIdentity(c.id)
                /\ Succeed(p, {"identity"},
                           AuditRecord("delete", c.actor, c.id, c.target.role, "", c.company))
  /\ UNCHANGED <<nextUid, nextPid, nextCid, binding, started>>

\* the identities createUser may still add
InitUserIds == { 1, 2, 3, 4 }

FirstFreshId == Cardinality(InitUserIds) + 1

\* company 1 is owned by user 1, company 2 by user 4
InitCompanies == { [id |-> C(1), owner_id |-> U(1)], [id |-> C(2), owner_id |-> U(4)] }

\* the ids ensureUserProfile may still give to a company
FirstFreshCompany == Cardinality(InitCompanies) + 1

\* adminClient.auth.admin.createUser({ email, password, email_confirm }): the
\* provider refuses a registered or malformed address
CreateIdentityStep(p) ==
  /\ calls[p].pc = "createIdentity"
  /\ \E err \in BOOLEAN :
       LET c == calls[p]
           email == TrimmedEmail(c.email)
           registered == \E a \in authUsers : a.email = email
       IN  IF err \/ registered \/ ~EmailRegexTest(email)
           THEN /\ ReturnOn(p, err, IF registered /\ binding = "fase9"
                             THEN "email_taken" ELSE "create_failed")
                /\ UNCHANGED <<authUsers, nextUid>>
           ELSE /\ nextUid < FirstFreshId + MaxCreate
                /\ authUsers' = authUsers \cup { [id |-> U(nextUid), email |-> email] }
                /\ nextUid' = nextUid + 1
                /\ calls' = [calls EXCEPT
                     ![p].fault = @ \/ err,
                     ![p].newUid = U(nextUid),
                     ![p].writes = @ \cup {"identity"},
                     ![p].pc = "insertProfile"]
  /\ UNCHANGED <<companies, profiles, sales, expenses, nextPid, nextCid, binding, started>>

\* supabase.from('profiles').insert({ user_id, company_id, role }): the row
\* passes the insert policy, the foreign keys, UNIQUE(user_id) and the CHECK
ProfileInsertOk(caller, row) ==
  /\ ProfileInsertPolicy(caller, row)
  /\ \E a \in authUsers : a.id = row.user_id
  /\ \E k \in companies : k.id = row.company_id
  /\ ~(\E q \in profiles : q.user_id = row.user_id)
  /\ row.role \in { "admin", "user" }

\* variant: a failed insert returns at once, the new identity is left behind
InsertProfileStepNoRollback(p) ==
  /\ calls[p].pc = "insertProfile"
  /\ \E err \in BOOLEAN :
       LET c == calls[p]
           row == [id |-> P(nextPid), user_id |-> c.newUid,
                   company_id |-> c.company, role |-> c.role]
       IN  IF c.company = Blank \/ err \/ ~ProfileInsertOk(c.caller, row)
           THEN /\ ReturnOn(p, err, "profile_failed")
                /\ UNCHANGED <<profiles, nextPid>>
           ELSE /\ profiles' = profiles \cup { row }
                /\ nextPid' = nextPid + 1
                /\ Succeed(p, {"profile"},
                           AuditRecord("create", c.actor, c.newUid, "", c.role, c.company))
  /\ UNCHANGED <<authUsers, companies, sales, expenses, nextUid, nextCid, binding, started>>

\* variant: the row gets the column default 'user', whatever role was asked
NewProfileRowDefaultRole(c) ==
  [id |-> P(nextPid), user_id |-> c.newUid, company_id |-> c.company,
   role |-> ROLES.USER]

\* { user_id: authData.user.id, company_id: adminProfile.company.id, role }
NewProfileRow(c) ==
  [id |-> P(nextPid), user_id |-> c.newUid, company_id |-> c.company,
   role |-> c.role]

InsertProfileStep(p) ==
  /\ calls[p].pc = "insertProfile"
  /\ \E err \in BOOLEAN :
       LET c == calls[p]
           row == NewProfileRow(c)
       IN  IF c.company = Blank
           THEN /\ ReturnOn(p, FALSE, "unexpected")
                /\ UNCHANGED <<profiles, nextPid>>
           ELSE IF err \/ ~ProfileInsertOk(c.caller, row)
           THEN /\ calls' = [calls EXCEPT ![p].pc = "rollback", ![p].fault = @ \/ err]
                /\ UNCHANGED <<profiles, nextPid>>
           ELSE /\ profiles' = profiles \cup { row }
                /\ nextPid' = nextPid + 1
                /\ Succeed(p, {"profile"},
                           AuditRecord("create", c.actor, c.newUid, "", c.role, c.company))
  /\ UNCHANGED <<authUsers, companies, sales, expenses, nextUid, nextCid, binding, started>>

\* try { await adminClient.auth.admin.deleteUser(authData.user.id) } catch { log }
\* the delete reports a failure as a returned { error }, which this call site
\* discards, or by throwing, which the catch block logs
RollbackStep(p) ==
  /\ calls[p].pc = "rollback"
  /\ \E err \in BOOLEAN : \E thrown \in BOOLEAN :
       LET c == calls[p]
           failed == err \/ ~(\E a \in authUsers : a.id = c.newUid)
       IN  /\ IF failed
              THEN UNCHANGED <<authUsers, companies, profiles, sales, expenses>>
              ELSE DeleteIdentity(c.newUid)
           /\ calls' = [calls EXCEPT
                ![p].fault = @ \/ err,
                ![p].pc = "done",
                ![p].result = "profile_failed",
                ![p].rollback = IF failed THEN "failed" ELSE "done",
                ![p].logged = failed /\ thrown]
  /\ UNCHANGED <<nextUid, nextPid, nextCid, binding, started>>

\* rows held by the two financial tables
StoredRows == sales[C(1)] + sales[C(2)] + expenses[C(1)] + expenses[C(2)]

\* supabase.from('sales' | 'expenses').insert(insertData), then the
\* [CSV_IMPORT] log and revalidatePath('/dashboard')
ImportInsertStep(p) ==
  /\ calls[p].pc = "insert"
  /\ \E err \in BOOLEAN :
       LET c == calls[p]
           table == IF c.op = "importSalesFromCSV" THEN sales ELSE expenses
           ok == /\ ~err
                 /\ FinancialInsertPolicy(c.caller, c.company)
                 /\ \E k \in companies : k.id = c.company
           after == [table EXCEPT ![c.company] = @ + c.rows]
       IN  IF ~ok
           THEN /\ ReturnOn(p, err, "insert_failed")
                /\ UNCHANGED <<sales, expenses>>
           ELSE /\ StoredRows + c.rows <= MaxRows
                /\ IF c.op = "importSalesFromCSV"
                   THEN sales' = after /\ UNCHANGED expenses
                   ELSE expenses' = after /\ UNCHANGED sales
                /\ calls' = [calls EXCEPT
                     ![p].fault = @ \/ err,
                     ![p].pc = "done",
                     ![p].result = "ok",
                     ![p].writes = @ \cup
                        { IF c.op = "importSalesFromCSV" THEN "sales" ELSE "expenses",
                          "audit", "revalidate" },
                     ![p].reval = Append(@, "/dashboard")]
  /\ UNCHANGED <<authUsers, companies, profiles, nextUid, nextPid, nextCid, binding, started>>

\* --------------------------------------------------------- evaluator calls
EvalOps == { "checkPermission", "requirePermission" }

StartEval(p) ==
  \E op \in EvalOps, caller \in Callers, permission \in ALL_PERMISSIONS :
    /\ Free(p)
    /\ calls' = [calls EXCEPT ![p] =
         [IdleCall EXCEPT !.op = op, !.caller = caller, !.permission = permission,
                          !.pc = "eval", !.n = started, !.pre = Snapshot]]
    /\ UNCHANGED <<db, binding, started>>

\* variant: the evaluator answers from the result of an earlier call of the
\* same principal for the same permission, when another process still holds one
EvalStepCached(p) ==
  /\ calls[p].pc = "eval"
  /\ \E err \in BOOLEAN :
       LET c == calls[p]
           earlier == { q \in Procs \ {p} :
                          /\ calls[q].pc = "done" /\ calls[q].op = "checkPermission"
                          /\ calls[q].caller = c.caller
                          /\ calls[q].permission = c.permission }
           granted == IF earlier # {}
                      THEN calls[CHOOSE q \in earlier : TRUE].result = "true"
                      ELSE CheckPermission(c.caller, c.permission, err)
       IN  calls' = [calls EXCEPT
             ![p].pc = "done",
             ![p].fault = err,
             ![p].result = IF c.op = "checkPermission"
                           THEN (IF granted THEN "true" ELSE "false")
                           ELSE (IF granted THEN "ok" ELSE "throw")]
  /\ UNCHANGED <<db, binding, started>>

\* checkPermission returns a boolean, requirePermission returns or throws
EvalStep(p) ==
  /\ calls[p].pc = "eval"
  /\ \E err \in BOOLEAN :
       LET c == calls[p]
       IN  calls' = [calls EXCEPT
             ![p].pc = "done",
             ![p].fault = err,
             ![p].result = IF c.op = "checkPermission"
                           THEN (IF CheckPermission(c.caller, c.permission, err)
                                 THEN "true" ELSE "false")
                           ELSE RequirePermission(c.caller, c.permission, err)]
  /\ UNCHANGED <<db, binding, started>>

\* ------------------------------------------------- evaluator calls on lists
ListEvalOps == { "checkAllPermissions", "checkAnyPermission", "requireAllPermissions" }

\* permission lists: empty, one entry, two entries in both orders, an entry
\* twice, with and without permissions that only admins hold
EvalPermissionLists ==
  { <<>>,
    << PERMISSIONS.DASHBOARD_VIEW >>,
    << PERMISSIONS.USER_MANAGE >>,
    << PERMISSIONS.CSV_UPLOAD, PERMISSIONS.CSV_UPLOAD >>,
    << PERMISSIONS.USER_MANAGE, PERMISSIONS.USER_MANAGE >>,
    << PERMISSIONS.DASHBOARD_VIEW, PERMISSIONS.CSV_UPLOAD >>,
    << PERMISSIONS.CSV_UPLOAD, PERMISSIONS.DASHBOARD_VIEW >>,
    << PERMISSIONS.USER_MANAGE, PERMISSIONS.CSV_UPLOAD >>,
    << PERMISSIONS.CSV_UPLOAD, PERMISSIONS.USER_MANAGE >>,
    << PERMISSIONS.CSV_UPLOAD, PERMISSIONS.USER_MANAGE, PERMISSIONS.CSV_UPLOAD >> }

StartListEval(p) ==
  \E op \in ListEvalOps, caller \in Callers, permissions \in EvalPermissionLists :
    /\ Free(p)
    /\ calls' = [calls EXCEPT ![p] =
         [IdleCall EXCEPT !.op = op, !.caller = caller, !.permissions = permissions,
                          !.pc = "evalList", !.n = started, !.pre = Snapshot]]
    /\ UNCHANGED <<db, binding, started>>

\* checkAllPermissions / checkAnyPermission return a boolean,
\* requireAllPermissions returns or throws
ListEvalStep(p) ==
  /\ calls[p].pc = "evalList"
  /\ \E err \in BOOLEAN :
       LET c == calls[p]
           bool(b) == IF b THEN "true" ELSE "false"
       IN  calls' = [calls EXCEPT
             ![p].pc = "done",
             ![p].fault = err,
             ![p].result =
               IF c.op = "checkAllPermissions"
               THEN bool(CheckAllPermissions(c.caller, c.permissions, err))
               ELSE IF c.op = "checkAnyPermission"
               THEN bool(CheckAnyPermission(c.caller, c.permissions, err))
               ELSE RequireAllPermissions(c.caller, c.permissions, err)]
  /\ UNCHANGED <<db, binding, started>>

\* ------------------------------------------------------- resolver calls
ResolverOps == { "getUserRole", "getUserWithRole" }

StartResolve(p) ==
  \E op \in ResolverOps, caller \in Callers :
    /\ Free(p)
    /\ calls' = [calls EXCEPT ![p] =
         [IdleCall EXCEPT !.op = op, !.caller = caller,
                          !.pc = IF op = "getUserWithRole" THEN "resolveGetUser"
                                 ELSE "resolveRole",
                          !.n = started, !.pre = Snapshot]]
    /\ UNCHANGED <<db, binding, started>>

\* getUserWithRole: getUser(); if (!user) return null
ResolveGetUserStep(p) ==
  /\ calls[p].pc = "resolveGetUser"
  /\ \E err \in BOOLEAN :
       LET c == calls[p]
           user == GetUser(c.caller, err)
       IN  calls' = [calls EXCEPT ![p] =
             IF user = NoUser
             THEN [c EXCEPT !.fault = @ \/ err, !.pc = "done", !.result = NoRole]
             ELSE [c EXCEPT !.user = user, !.pc = "resolveRole"]]
  /\ UNCHANGED <<db, binding, started>>

\* variant: the resolver gives a principal without a profile a company and a
\* profile of its own, as ensureUserProfile does
ResolveRoleStepEnsuring(p) ==
  /\ calls[p].pc = "resolveRole"
  /\ \E err \in BOOLEAN :
       LET c == calls[p]
           missing == /\ \E a \in authUsers : a.id = c.caller
                      /\ ~(\E q \in profiles : q.user_id = c.caller)
           company == [id |-> C(nextCid), owner_id |-> c.caller]
           row == [id |-> P(nextPid), user_id |-> c.caller, company_id |-> company.id,
                   role |-> ROLES.USER]
       IN  /\ IF missing /\ ~err
              THEN /\ nextCid < FirstFreshCompany + MaxCompanies
                   /\ companies' = companies \cup { company }
                   /\ profiles' = profiles \cup { row }
                   /\ nextCid' = nextCid + 1
                   /\ nextPid' = nextPid + 1
              ELSE UNCHANGED <<companies, profiles, nextCid, nextPid>>
           /\ calls' = [calls EXCEPT
                ![p].pc = "done",
                ![p].fault = @ \/ err,
                ![p].result = IF missing /\ ~err THEN ROLES.USER
                              ELSE GetUserRole(c.caller, err)]
  /\ UNCHANGED <<authUsers, sales, expenses, nextUid, binding, started>>

\* const role = await getUserRole(): the role, or null
ResolveRoleStep(p) ==
  /\ calls[p].pc = "resolveRole"
  /\ \E err \in BOOLEAN :
       LET c == calls[p]
       IN  calls' = [calls EXCEPT
             ![p].pc = "done",
             ![p].fault = @ \/ err,
             ![p].result = GetUserRole(c.caller, err)]
  /\ UNCHANGED <<db, binding, started>>

\* ------------------------------------------------------------ route guards
RouteOps == { "requireRoutePermission", "requireAnyRoutePermission" }

\* permission lists handed to requireAnyRoutePermission: empty, held by every
\* role, held by admins only, and mixed in both orders
RoutePermissionLists ==
  { <<>>,
    << PERMISSIONS.DASHBOARD_VIEW >>,
    << PERMISSIONS.ADMIN_PANEL, PERMISSIONS.USER_MANAGE >>,
    << PERMISSIONS.USER_MANAGE, PERMISSIONS.CSV_UPLOAD >>,
    << PERMISSIONS.CSV_UPLOAD, PERMISSIONS.USER_MANAGE >> }

StartRouteGuard(p) ==
  /\ Free(p)
  /\ \E caller \in Callers :
       \/ \E permission \in ALL_PERMISSIONS :
            calls' = [calls EXCEPT ![p] =
              [IdleCall EXCEPT !.op = "requireRoutePermission", !.caller = caller,
                               !.permission = permission,
                               !.pc = "guardRoute", !.n = started, !.pre = Snapshot]]
       \/ \E permissions \in RoutePermissionLists :
            calls' = [calls EXCEPT ![p] =
              [IdleCall EXCEPT !.op = "requireAnyRoutePermission", !.caller = caller,
                               !.permissions = permissions,
                               !.pc = "guardRoute", !.n = started, !.pre = Snapshot]]
  /\ UNCHANGED <<db, binding, started>>

\* const hasPermission = await check...(); if (!hasPermission) redirect('/dashboard')
RouteGuardStep(p) ==
  /\ calls[p].pc = "guardRoute"
  /\ \E err \in BOOLEAN :
       LET c == calls[p]
           to == IF c.op = "requireRoutePermission"
                 THEN RequireRoutePermission(c.caller, c.permission, err)
                 ELSE RequireAnyRoutePermission(c.caller, c.permissions, err)
       IN  calls' = [calls EXCEPT
             ![p].pc = "done",
             ![p].fault = err,
             ![p].location = to,
             ![p].result = IF to = "" THEN "return" ELSE "redirect"]
  /\ UNCHANGED <<db, binding, started>>

\* ------------------------------------------------------ ensureUserProfile
EnsureThrows == { "company_failed", "profile_failed" }

StartEnsureUserProfile(p) ==
  \E caller \in Callers :
    /\ Free(p)
    /\ nextCid < FirstFreshCompany + MaxCompanies
    /\ calls' = [calls EXCEPT ![p] =
         [IdleCall EXCEPT !.op = "ensureUserProfile", !.caller = caller,
                          !.pc = "ensureGetUser", !.n = started, !.pre = Snapshot]]
    /\ UNCHANGED <<db, binding>>

\* ensureUserProfile returns or throws: a direct call ends; the home page
\* redirects to '/login' when it threw and to '/dashboard' otherwise
EnsureExit(c, code, err) ==
  IF c.op = "navigate"
  THEN [c EXCEPT !.fault = @ \/ err, !.ensured = code, !.pc = "middleware",
                 !.location = IF code \in EnsureThrows THEN "/login" ELSE "/dashboard"]
  ELSE [c EXCEPT !.fault = @ \/ err, !.ensured = code, !.pc = "done", !.result = code]

\* const { data: { user } } = await supabase.auth.getUser(); if (!user) return null
EnsureGetUserStep(p) ==
  /\ calls[p].pc = "ensureGetUser"
  /\ \E err \in BOOLEAN :
       LET c == calls[p]
           user == GetUser(c.caller, err)
       IN  calls' = [calls EXCEPT ![p] =
             IF user = NoUser THEN EnsureExit(c, "null", err)
             ELSE [c EXCEPT !.user = user, !.pc = "ensureLookup"]]
  /\ UNCHANGED <<db, binding, started>>

\* profiles.select('*, companies(*)').eq('user_id', user.id).single()
EnsureLookupStep(p) ==
  /\ calls[p].pc = "ensureLookup"
  /\ \E err \in BOOLEAN :
       LET c == calls[p]
           rows == { q \in profiles : q.user_id = c.user /\ ProfileSelectPolicy(c.caller, q) }
           existingProfile == CHOOSE q \in rows : TRUE
           joined == { k \in companies : k.id = existingProfile.company_id
                                          /\ CompanySelectPolicy(c.caller, k) }
       IN  calls' = [calls EXCEPT ![p] =
             IF ~err /\ Cardinality(rows) = 1
             THEN EnsureExit([c EXCEPT !.profileId = existingProfile.id,
                                       !.company = IF joined = {} THEN Blank
                                                   ELSE existingProfile.company_id],
                             "existing", err)
             ELSE [c EXCEPT !.fault = @ \/ err, !.pc = "ensureCompany"]]
  /\ UNCHANGED <<db, binding, started>>

\* companies.insert({ name, owner_id: user.id }).select().single()
EnsureCompanyStep(p) ==
  /\ calls[p].pc = "ensureCompany"
  /\ \E err \in BOOLEAN :
       LET c == calls[p]
           row == [id |-> C(nextCid), owner_id |-> c.user]
           ok == /\ ~err
                 /\ CompanyInsertPolicy(c.caller, row)
                 /\ \E a \in authUsers : a.id = row.owner_id
       IN  IF ~ok
           THEN /\ calls' = [calls EXCEPT ![p] = EnsureExit(c, "company_failed", err)]
                /\ UNCHANGED <<companies, nextCid>>
           ELSE /\ nextCid < FirstFreshCompany + MaxCompanies
                /\ companies' = companies \cup { row }
                /\ nextCid' = nextCid + 1
                /\ calls' = [calls EXCEPT
                     ![p].company = row.id,
                     ![p].writes = @ \cup {"company"},
                     ![p].pc = "ensureProfile"]
  /\ UNCHANGED <<authUsers, profiles, sales, expenses, nextUid, nextPid, binding, started>>

\* variant: the profile is inserted whether the principal has one or not
EnsureProfileInsertOkNoUnique(caller, row) ==
  /\ ProfileInsertPolicy(caller, row)
  /\ \E a \in authUsers : a.id = row.user_id
  /\ \E k \in companies : k.id = row.company_id

\* the insert of ensureUserProfile passes the policy and the constraints
EnsureProfileInsertOk(caller, row) == ProfileInsertOk(caller, row)

\* variant: the first profile of a new company is created as its admin
EnsureProfileStepAsAdmin(p) ==
  /\ calls[p].pc = "ensureProfile"
  /\ \E err \in BOOLEAN :
       LET c == calls[p]
           row == [id |-> P(nextPid), user_id |-> c.user, company_id |-> c.company,
                   role |-> ROLES.ADMIN]
       IN  IF err \/ ~EnsureProfileInsertOk(c.caller, row)
           THEN /\ calls' = [calls EXCEPT ![p].fault = @ \/ err, ![p].pc = "ensureCleanup"]
                /\ UNCHANGED <<profiles, nextPid>>
           ELSE /\ profiles' = profiles \cup { row }
                /\ nextPid' = nextPid + 1
                /\ calls' = [calls EXCEPT ![p] =
                     EnsureExit([c EXCEPT !.profileId = row.id,
                                          !.writes = @ \cup {"profile"}],
                                "created", err)]
  /\ UNCHANGED <<authUsers, companies, sales, expenses, nextUid, nextCid, binding, started>>

\* profiles.insert({ user_id: user.id, company_id: companyData.id, role: 'user' })
EnsureProfileStep(p) ==
  /\ calls[p].pc = "ensureProfile"
  /\ \E err \in BOOLEAN :
       LET c == calls[p]
           row == [id |-> P(nextPid), user_id |-> c.user, company_id |-> c.company,
                   role |-> ROLES.USER]
       IN  IF err \/ ~EnsureProfileInsertOk(c.caller, row)
           THEN /\ calls' = [calls EXCEPT ![p].fault = @ \/ err, ![p].pc = "ensureCleanup"]
                /\ UNCHANGED <<profiles, nextPid>>
           ELSE /\ profiles' = profiles \cup { row }
                /\ nextPid' = nextPid + 1
                /\ calls' = [calls EXCEPT ![p] =
                     EnsureExit([c EXCEPT !.profileId = row.id,
                                          !.writes = @ \cup {"profile"}],
                                "created", err)]
  /\ UNCHANGED <<authUsers, companies, sales, expenses, nextUid, nextCid, binding, started>>

\* try { await companies.delete().eq('id', companyData.id) } catch { log };
\* throw new Error('Erro ao criar perfil')
EnsureCleanupStep(p) ==
  /\ calls[p].pc = "ensureCleanup"
  /\ \E err \in BOOLEAN :
       LET c == calls[p]
           deleted == IF err THEN {}
                      ELSE { k \in companies : k.id = c.company
                                               /\ CompanyDeletePolicy(c.caller, k) }
           gone == { k.id : k \in deleted }
       IN  /\ companies' = companies \ deleted
           /\ profiles' = { q \in profiles : q.company_id \notin gone }
           /\ sales' = [ k \in DOMAIN sales |-> IF k \in gone THEN 0 ELSE sales[k] ]
           /\ expenses' = [ k \in DOMAIN expenses |-> IF k \in gone THEN 0 ELSE expenses[k] ]
           /\ calls' = [calls EXCEPT ![p] =
                EnsureExit([c EXCEPT !.rollback = IF deleted = {} THEN "failed" ELSE "done"],
                           "profile_failed", err)]
  /\ UNCHANGED <<authUsers, nextUid, nextPid, nextCid, binding, started>>

EnsureStep(p) ==
  \/ EnsureGetUserStep(p)
  \/ EnsureLookupStep(p)
  \/ EnsureCompanyStep(p)
  \/ EnsureProfileStep(p)
  \/ EnsureCleanupStep(p)

\* ---------------------------------------------------------------- pages
\* signUp and signIn end in redirect('/dashboard'); '/' is the entry page
EntryPaths == { "/dashboard", "/" }

StartNavigate(p) ==
  \E caller \in Callers, path \in EntryPaths :
    /\ Free(p)
    /\ nextCid < FirstFreshCompany + MaxCompanies
    /\ calls' = [calls EXCEPT ![p] =
         [IdleCall EXCEPT !.op = "navigate", !.caller = caller, !.location = path,
                          !.pc = "middleware", !.n = started, !.pre = Snapshot]]
    /\ UNCHANGED <<db, binding>>

\* redirect(path): the browser requests path
Redirect(c, path, err) ==
  [c EXCEPT !.fault = @ \/ err, !.location = path, !.pc = "middleware"]

\* the page is rendered and sent
Render(c, err) ==
  [c EXCEPT !.fault = @ \/ err, !.pc = "done", !.result = "rendered"]

\* middleware(): a private route without a session is redirected to '/login';
\* every other request goes on to its page ('/login' itself is rendered)
MiddlewareStep(p) ==
  /\ calls[p].pc = "middleware"
  /\ \E err \in BOOLEAN :
       LET c == calls[p]
           user == GetUser(c.caller, err)
           isPrivateRoute == c.location = "/dashboard"
       IN  calls' = [calls EXCEPT ![p] =
             IF isPrivateRoute /\ user = NoUser THEN Redirect(c, "/login", err)
             ELSE IF c.location = "/dashboard"
                  THEN [c EXCEPT !.fault = @ \/ err, !.pc = "dashboardGetUser"]
             ELSE IF c.location = "/"
                  THEN [c EXCEPT !.fault = @ \/ err, !.pc = "homeGetUser"]
             ELSE Render(c, err)]
  /\ UNCHANGED <<db, binding, started>>

\* DashboardPage: getUser(); if (!user) redirect('/login')
DashboardGetUserStep(p) ==
  /\ calls[p].pc = "dashboardGetUser"
  /\ \E err \in BOOLEAN :
       LET c == calls[p]
           user == GetUser(c.caller, err)
       IN  calls' = [calls EXCEPT ![p] =
             IF user = NoUser THEN Redirect(c, "/login", err)
             ELSE [c EXCEPT !.user = user, !.pc = "dashboardGuard"]]
  /\ UNCHANGED <<db, binding, started>>

\* await requireRoutePermission(PERMISSIONS.DASHBOARD_VIEW)
DashboardGuardStep(p) ==
  /\ calls[p].pc = "dashboardGuard"
  /\ \E err \in BOOLEAN :
       LET c == calls[p]
           to == RequireRoutePermission(c.caller, PERMISSIONS.DASHBOARD_VIEW, err)
       IN  calls' = [calls EXCEPT ![p] =
             IF to # "" THEN Redirect(c, to, err)
             ELSE [c EXCEPT !.pc = "dashboardProfile"]]
  /\ UNCHANGED <<db, binding, started>>

\* const userProfile = await getUserProfile(); if (!userProfile) redirect('/')
DashboardProfileStep(p) ==
  /\ calls[p].pc = "dashboardProfile"
  /\ \E err \in BOOLEAN :
       LET c == calls[p]
           userProfile == GetUserProfile(c.caller, err)
       IN  calls' = [calls EXCEPT ![p] =
             IF ~userProfile.found THEN Redirect(c, "/", err) ELSE Render(c, err)]
  /\ UNCHANGED <<db, binding, started>>

\* HomePage: getUser(); if (!user) redirect('/login'); then ensureUserProfile()
HomeGetUserStep(p) ==
  /\ calls[p].pc = "homeGetUser"
  /\ \E err \in BOOLEAN :
       LET c == calls[p]
           user == GetUser(c.caller, err)
       IN  calls' = [calls EXCEPT ![p] =
             IF user = NoUser THEN Redirect(c, "/login", err)
             ELSE [c EXCEPT !.pc = "ensureGetUser"]]
  /\ UNCHANGED <<db, binding, started>>

PageStep(p) ==
  \/ MiddlewareStep(p)
  \/ DashboardGetUserStep(p)
  \/ DashboardGuardStep(p)
  \/ DashboardProfileStep(p)
  \/ HomeGetUserStep(p)

\* ------------------------------------------------------------------- init
DigitChar(n) == <<"1", "2", "3", "4", "5", "6", "7", "8", "9">>[n]

\* users 1..3 belong to company 1 (owner: user 1), user 4 owns company 2
HomeCompany(n) == IF n = 4 THEN C(2) ELSE C(1)

\* a profiles table: role "-" stands for "no profile row"
ProfilesOf(r) ==
  { [id |-> P(n), user_id |-> U(n), company_id |-> HomeCompany(n), role |-> r[n]] :
      n \in { m \in DOMAIN r : r[m] # "-" } }

\* the identities ids with one of the role assignments; owners have a profile
InitStore(ids, roleAssignments) ==
  /\ authUsers = { [id |-> U(n), email |-> Mail(DigitChar(n))] : n \in ids }
  /\ companies = InitCompanies
  /\ \E r \in roleAssignments :
       /\ r[1] # "-" /\ r[4] # "-"
       /\ profiles = ProfilesOf(r)
  /\ sales = [ c \in { k.id : k \in InitCompanies } |-> 0 ]
  /\ expenses = [ c \in { k.id : k \in InitCompanies } |-> 0 ]
  /\ nextUid = FirstFreshId
  /\ nextPid = FirstFreshId
  /\ nextCid = FirstFreshCompany
  /\ binding \in { "fase9", "fase7" }
  /\ calls = [ p \in Procs |-> IdleCall ]
  /\ started = 0

\* the CHECK constraint of profiles.role holds
Init == InitStore(InitUserIds, [InitUserIds -> { "admin", "user", "-" }])

\* role values that a bypassed constraint could have let in
InitEval ==
  InitStore(InitUserIds, [InitUserIds -> { "admin", "user", "owner", "ADMIN", "-" }])

\* two admins and a user in company 1, an admin in company 2
InitConc ==
  InitStore(InitUserIds, { <<ROLES.ADMIN, ROLES.ADMIN, ROLES.USER, ROLES.ADMIN>> })

\* members of company 1 beside its admin: user 2 ('user' or no profile yet)
\* and user 3 ('admin' or no profile yet)
InitNav ==
  InitStore(InitUserIds,
            { <<ROLES.ADMIN, r2, r3, ROLES.ADMIN>> :
                r2 \in { ROLES.USER, "-" }, r3 \in { ROLES.ADMIN, "-" } })

\* company 1: an admin, a user and an identity without profile; company 2:
\* an admin
InitMix ==
  InitStore(InitUserIds, { <<ROLES.ADMIN, ROLES.USER, "-", ROLES.ADMIN>> })

\* one member beside each owner
InitAll == InitStore({ 1, 2, 4 }, [{ 1, 2, 4 } -> { "admin", "user", "-" }])

\* ------------------------------------------------------------------- next
\* the steps of updateUserRole and deleteUser
MemberStep(p) ==
  \/ Respond(p)
  \/ PermStep(p)
  \/ ProfileStep(p)
  \/ FetchStep(p)
  \/ GetUserStep(p)
  \/ GuardStep(p)
  \/ UpdateStep(p)
  \/ DeleteStep(p)

Step(p) ==
  \/ MemberStep(p)
  \/ CreateIdentityStep(p)
  \/ InsertProfileStep(p)
  \/ RollbackStep(p)

Start(p) ==
  \/ StartCreateUser(p)
  \/ StartUpdateUserRole(p)
  \/ StartDeleteUser(p)

\* one call at a time
Next == \E p \in SeqProcs : (Start(p) /\ UNCHANGED started) \/ Step(p)

Spec == Init /\ [][Next]_vars

\* interleaved updateUserRole and deleteUser calls
NextConc ==
  \E p \in Procs :
    \/ /\ started < MaxCalls
       /\ started' = started + 1
       /\ StartUpdateUserRole(p) \/ StartDeleteUser(p)
    \/ MemberStep(p)

SpecConc == InitConc /\ [][NextConc]_vars

\* one call at a time, the CSV imports among them
NextAll ==
  \E p \in SeqProcs :
    \/ (Start(p) \/ StartImport(p)) /\ UNCHANGED started
    \/ Step(p)
    \/ ImportInsertStep(p)

SpecAll == InitAll /\ [][NextAll]_vars

\* the evaluator alone
NextEval ==
  \E p \in SeqProcs :
    \/ StartEval(p)
    \/ EvalStep(p)
    \/ StartRouteGuard(p)
    \/ RouteGuardStep(p)
    \/ StartListEval(p)
    \/ ListEvalStep(p)
    \/ StartResolve(p)
    \/ ResolveGetUserStep(p)
    \/ ResolveRoleStep(p)
    \/ Respond(p)

SpecEval == InitEval /\ [][NextEval]_vars

\* page requests and ensureUserProfile calls, one at a time; a request in
\* progress is eventually served
NextNav ==
  \E p \in SeqProcs :
    \/ (StartNavigate(p) \/ StartEnsureUserProfile(p)) /\ UNCHANGED started
    \/ PageStep(p)
    \/ EnsureStep(p)
    \/ Respond(p)

SpecNav == InitNav /\ [][NextNav]_vars /\ WF_vars(NextNav)

\* the calls of the interleaved runs: a signed-in caller, arguments that pass
\* the validations
MixCall(c) ==
  /\ c.caller # NoUser
  /\ c.op = "createUser" => ValidateCreateUser(c.email, c.password, c.role) = ""
  /\ c.op = "updateUserRole" => ValidateUpdateUserRole(c.id, c.role) = ""
  /\ c.op = "deleteUser" => ValidateDeleteUser(c.id) = ""

\* interleaved ensureUserProfile, createUser, updateUserRole and deleteUser
NextMix ==
  \E p \in Procs :
    \/ /\ started < MaxCalls
       /\ started' = started + 1
       /\ Start(p) \/ StartEnsureUserProfile(p)
       /\ MixCall(calls'[p])
    \/ Step(p)
    \/ EnsureStep(p)

SpecMix == InitMix /\ [][NextMix]_vars

\* ------------------------------------------------------ signUp and signIn
\* signUp(email, password) / signIn(email, password): a new address, a
\* registered one after trim() and toLowerCase(), and a missing field
SignInputs ==
  { <<NewEmail, 6>>, <<NewEmail, 5>>, <<NewEmail, 0>>, <<<<>>, 6>>,
    << <<"A", "@", "x", ".", "c">>, 6 >>, << <<"a", "@", "x", ".", "c">>, 6 >> }

SignOps == { "signUp", "signIn" }

StartSign(p) ==
  \E op \in SignOps, in \in SignInputs :
    /\ Free(p)
    /\ calls' = [calls EXCEPT ![p] =
         [IdleCall EXCEPT !.op = op, !.email = in[1], !.password = in[2],
                          !.pc = "sign", !.n = started, !.pre = Snapshot]]
    /\ UNCHANGED <<db, binding, started>>

SignRedirect(c, err) ==
  [c EXCEPT !.fault = @ \/ err, !.pc = "done", !.result = "redirect",
            !.location = "/dashboard"]

\* supabase.auth.signUp({ email: email.trim().toLowerCase(), password }): for
\* a registered address the provider answers with an error or, when it hides
\* registered addresses, without one; it adds no identity either way
SignUpStep(p) ==
  /\ calls[p].pc = "sign" /\ calls[p].op = "signUp"
  /\ \E err \in BOOLEAN, hidden \in BOOLEAN :
       LET c == calls[p]
           email == TrimmedEmail(c.email)
           registered == \E a \in authUsers : a.email = email
       IN  IF c.email = <<>> \/ c.password = 0
           THEN /\ ReturnOn(p, FALSE, "fields_required")
                /\ UNCHANGED <<authUsers, nextUid>>
           ELSE IF c.password < 6
           THEN /\ ReturnOn(p, FALSE, "password_short")
                /\ UNCHANGED <<authUsers, nextUid>>
           ELSE IF err \/ ~EmailRegexTest(email) \/ (registered /\ ~hidden)
           THEN /\ ReturnOn(p, err, "sign_failed")
                /\ UNCHANGED <<authUsers, nextUid>>
           ELSE IF registered
           THEN /\ calls' = [calls EXCEPT ![p] = SignRedirect(c, err)]
                /\ UNCHANGED <<authUsers, nextUid>>
           ELSE /\ nextUid <= MaxSignUps
                /\ authUsers' = authUsers \cup { [id |-> U(nextUid), email |-> email] }
                /\ nextUid' = nextUid + 1
                /\ calls' = [calls EXCEPT ![p] =
                     SignRedirect([c EXCEPT !.newUid = U(nextUid),
                                            !.writes = @ \cup {"identity"}], err)]
  /\ UNCHANGED <<companies, profiles, sales, expenses, nextPid, nextCid, binding, started>>

\* supabase.auth.signInWithPassword({ email: email.trim().toLowerCase(),
\* password }): the provider compares the password, which the store of the
\* model does not hold
SignInStep(p) ==
  /\ calls[p].pc = "sign" /\ calls[p].op = "signIn"
  /\ \E err \in BOOLEAN, match \in BOOLEAN :
       LET c == calls[p]
           email == TrimmedEmail(c.email)
           registered == \E a \in authUsers : a.email = email
       IN  IF c.email = <<>> \/ c.password = 0
           THEN ReturnOn(p, FALSE, "fields_required")
           ELSE IF err \/ ~registered \/ ~match
           THEN ReturnOn(p, err, "sign_failed")
           ELSE calls' = [calls EXCEPT ![p] = SignRedirect(c, err)]
  /\ UNCHANGED <<db, binding, started>>

\* no identity, no company, no profile
InitEmpty ==
  /\ authUsers = {}
  /\ companies = {}
  /\ profiles = {}
  /\ sales = <<>>
  /\ expenses = <<>>
  /\ nextUid = 1
  /\ nextPid = 1
  /\ nextCid = 1
  /\ binding \in { "fase9", "fase7" }
  /\ calls = [ p \in Procs |-> IdleCall ]
  /\ started = 0

\* from the empty store: signUp, signIn, ensureUserProfile and the three
\* admin actions, one call at a time; every admin action ends at its
\* permission check (C28_NoAdminFromEmpty)
NextBoot ==
  \E p \in SeqProcs :
    \/ StartSign(p)
    \/ /\ StartEnsureUserProfile(p) \/ Start(p)
       /\ MixCall(calls'[p])
       /\ UNCHANGED started
    \/ SignUpStep(p)
    \/ SignInStep(p)
    \/ EnsureStep(p)
    \/ PermStep(p)
    \/ Respond(p)

SpecBoot == InitEmpty /\ [][NextBoot]_vars

\* no other process is in the middle of a call
OthersQuiet(p) == \A q \in Procs \ {p} : calls[q].pc \in { "idle", "done" }

\* the calls of SpecFresh: signed-in callers, arguments that pass the
\* validations, a permission every role has or one only admins have
FreshCall(c) ==
  /\ MixCall(c)
  /\ c.op \in EvalOps => c.permission \in { PERMISSIONS.DASHBOARD_VIEW, PERMISSIONS.USER_MANAGE }

\* evaluator calls between updateUserRole and deleteUser calls (at most
\* MaxChanges of these, on the first process): calls do not overlap, and a
\* process keeps the result of its last call until it starts the next
NextFresh ==
  \E p \in Procs :
    \/ /\ OthersQuiet(p)
       /\ \/ StartEval(p)
          \/ /\ p = 1
             /\ started < MaxChanges
             /\ started' = started + 1
             /\ StartUpdateUserRole(p) \/ StartDeleteUser(p)
       /\ FreshCall(calls'[p])
    \/ EvalStep(p)
    \/ MemberStep(p)

SpecFresh == InitConc /\ [][NextFresh]_vars

\* ------------------------------------------------------------- properties
\* the permissions the static table lists for a role
TableEntry(role) == { ROLE_PERMISSIONS[role][i] : i \in DOMAIN ROLE_PERMISSIONS[role] }

\* the profile rows stored for an identity
StoredProfiles(uid) == { q \in profiles : q.user_id = uid }

\* a finished evaluator call, and its denial
EvalDone(p) == calls[p].pc = "done" /\ calls[p].op \in EvalOps

EvalDenied(p) ==
  calls[p].result = (IF calls[p].op = "checkPermission" THEN "false" ELSE "throw")

\* C1: for a principal that is unauthenticated or has no profile row,
\* checkPermission returns false and requirePermission throws, for every
\* permission; nothing is granted by default.
C1_NoProfileNoPermission ==
  \A p \in Procs :
    (EvalDone(p) /\ (calls[p].caller = NoUser \/ StoredProfiles(calls[p].caller) = {}))
      => EvalDenied(p)

\* an authenticated identity without a profile row: its read succeeded and
\* requirePermission threw on a permission that role 'user' holds
C1_Witness ==
  \E p \in Procs :
    /\ EvalDone(p) /\ ~calls[p].fault
    /\ calls[p].caller # NoUser /\ StoredProfiles(calls[p].caller) = {}
    /\ calls[p].op = "requirePermission"
    /\ calls[p].permission = PERMISSIONS.DASHBOARD_VIEW
    /\ calls[p].result = "throw"

\* the principals whose stored role is one of the two roles
HasStoredRole(p) ==
  /\ EvalDone(p) /\ calls[p].op = "checkPermission"
  /\ \E q \in StoredProfiles(calls[p].caller) : q.role \in { ROLES.ADMIN, ROLES.USER }

StoredRole(p) == (CHOOSE q \in StoredProfiles(calls[p].caller) : TRUE).role

\* C2 as stated: for a principal whose stored role is admin or user,
\* checkPermission(x) returns true exactly when x is listed in
\* ROLE_PERMISSIONS for that role.
C2_AsStated ==
  \A p \in Procs :
    HasStoredRole(p) =>
      (calls[p].result = "true" <=> calls[p].permission \in TableEntry(StoredRole(p)))

\* C2: for a principal whose stored role is admin or user, checkPermission(x)
\* returns true exactly when x is listed in ROLE_PERMISSIONS for that role and
\* the read of the profile succeeded; when the read fails it returns false.
C2_TableWhenRead ==
  \A p \in Procs :
    HasStoredRole(p) =>
      (calls[p].result = "true" <=>
         (calls[p].permission \in TableEntry(StoredRole(p)) /\ ~calls[p].fault))

\* a 'user' whose profile was read is refused user:manage
C2_Witness ==
  \E p \in Procs :
    /\ HasStoredRole(p) /\ StoredRole(p) = ROLES.USER /\ ~calls[p].fault
    /\ calls[p].permission = PERMISSIONS.USER_MANAGE
    /\ calls[p].result = "false"

\* C3: a stored role other than 'admin' or 'user' resolves to no role: every
\* checkPermission is false and every requirePermission throws; no fallback
\* role is substituted.
C3_UnknownRoleDenied ==
  \A p \in Procs :
    (EvalDone(p) /\ \E q \in StoredProfiles(calls[p].caller) :
                      q.role \notin { ROLES.ADMIN, ROLES.USER })
      => EvalDenied(p)

\* a profile whose role is stored as 'ADMIN' is refused dashboard:view
C3_Witness ==
  \E p \in Procs :
    /\ EvalDone(p) /\ ~calls[p].fault
    /\ \E q \in StoredProfiles(calls[p].caller) : q.role = "ADMIN"
    /\ calls[p].op = "checkPermission"
    /\ calls[p].permission = PERMISSIONS.DASHBOARD_VIEW
    /\ calls[p].result = "false"

\* a finished call of a server action, and what it was given
Finished(p, ops) == calls[p].pc = "done" /\ calls[p].op \in ops

MemberOps == { "updateUserRole", "deleteUser" }

\* the profile rows the call's argument named when the call started
TargetRows(c) ==
  { q \in c.pre.profiles :
      IF c.op = "updateUserRole" THEN q.id = c.id ELSE q.user_id = c.id }

\* the rows that made the caller an admin when the call started
CallerAdminRows(c) ==
  { q \in c.pre.profiles : q.user_id = c.caller /\ q.role = ROLES.ADMIN }

AdminsIn(rows, company) ==
  { q \in rows : q.company_id = company /\ q.role = ROLES.ADMIN }

\* C4: in createUser, updateUserRole, deleteUser, importSalesFromCSV and
\* importExpensesFromCSV the permission check comes first: up to it, and after
\* it when requirePermission denied, the call has written nothing (store,
\* identity provider, sales/expenses, audit log, cache invalidation), and a
\* denied call has ended with the denial.
C4_PermissionCheckFirst ==
  \A p \in Procs :
    LET c == calls[p]
    IN  (c.op \in AdminOps \cup ImportOps /\ ~c.granted) =>
          /\ c.pc = "perm" \/ (c.pc = "done" /\ c.result = "denied")
          /\ c.writes = {} /\ c.audit = <<>> /\ c.reval = <<>>
          /\ Snapshot = c.pre

\* an import by an identity without a profile, with a valid file, was denied
C4_Witness ==
  \E p \in Procs :
    /\ Finished(p, ImportOps) /\ calls[p].result = "denied"
    /\ calls[p].caller # NoUser /\ calls[p].file = "csv" /\ calls[p].rows > 0
    /\ calls[p].writes = {}

\* the call asks to demote or delete the only admin of a company
TargetsOnlyAdmin(c) ==
  /\ c.op = "updateUserRole" => c.role = ROLES.USER
  /\ \E t \in TargetRows(c) : AdminsIn(c.pre.profiles, t.company_id) = { t }

\* C5 as stated: when a company has exactly one admin, updateUserRole(that
\* admin's profile, 'user') and deleteUser(that admin) return a failure,
\* whoever calls, and the profiles and identities stay as they were.
C5_AsStated ==
  \A p \in Procs :
    (Finished(p, MemberOps) /\ TargetsOnlyAdmin(calls[p])) =>
      /\ calls[p].result # "ok"
      /\ profiles = calls[p].pre.profiles
      /\ authUsers = calls[p].pre.authUsers

\* the caller is an admin of one company and the target belongs to another
CrossTenant(c) ==
  \E a \in CallerAdminRows(c) : \E t \in TargetRows(c) : a.company_id # t.company_id

\* C6: when the caller is an admin of company A and the target profile
\* belongs to another company B, updateUserRole and deleteUser return a
\* failure and B's profiles, roles and identities are unchanged.
C6_CrossTenantFails ==
  \A p \in Procs :
    (Finished(p, MemberOps) /\ CrossTenant(calls[p])) =>
      /\ calls[p].result # "ok"
      /\ \A t \in TargetRows(calls[p]) :
           /\ { q \in profiles : q.company_id = t.company_id }
                = { q \in calls[p].pre.profiles : q.company_id = t.company_id }
           /\ \A q \in calls[p].pre.profiles :
                q.company_id = t.company_id =>
                  \E a \in authUsers : a.id = q.user_id

\* an admin of company 1 asked to delete the admin of company 2
C6_Witness ==
  \E p \in Procs :
    /\ Finished(p, {"deleteUser"}) /\ CrossTenant(calls[p])
    /\ calls[p].caller = U(1) /\ calls[p].id = U(4)
    /\ calls[p].result = "not_found"

\* C7 as stated: deleteUser(userId) fails whenever userId is the caller's own
\* identity, however many other admins there are, and the caller's identity
\* and profile remain.
C7_AsStated ==
  \A p \in Procs :
    (Finished(p, {"deleteUser"}) /\ calls[p].caller # NoUser
       /\ calls[p].id = calls[p].caller) =>
      /\ calls[p].result # "ok"
      /\ \E a \in authUsers : a.id = calls[p].caller
      /\ StoredProfiles(calls[p].caller)
           = { q \in calls[p].pre.profiles : q.user_id = calls[p].caller }

CompanyIds == { k.id : k \in InitCompanies }

\* C8 as stated: with calls running one at a time, a company that has an
\* admin profile has one in every later state.
C8_AsStated ==
  [][ \A k \in CompanyIds :
        AdminsIn(profiles, k) # {} => AdminsIn(profiles', k) # {} ]_vars

\* a successful updateUserRole / deleteUser that passed the admin-count guard
GuardedWrite(p) ==
  /\ Finished(p, MemberOps) /\ calls[p].result = "ok"
  /\ calls[p].guard = "passed"

\* the company still has members and none of them is an admin
LockedOut(company) ==
  /\ \E k \in companies : k.id = company
  /\ \E q \in profiles : q.company_id = company
  /\ AdminsIn(profiles, company) = {}

\* two calls on one company, the only calls made, that both passed the guard
\* and wrote
Raced(p, q) ==
  /\ p # q /\ GuardedWrite(p) /\ GuardedWrite(q)
  /\ started = Cardinality({p, q})
  /\ calls[p].company = calls[q].company
  /\ LockedOut(calls[p].company)

\* C9: the admin-count read and the write are separate steps: when two
\* interleaved updateUserRole / deleteUser calls on one company, with no
\* third call, both pass their guards and leave it without an admin, each
\* guard ran before the other call's write (it still saw another admin).
C9_GuardsBeforeWrites ==
  \A p \in Procs : \A q \in Procs :
    Raced(p, q) =>
      /\ calls[q].n \notin calls[p].sawWrites
      /\ calls[p].n \notin calls[q].sawWrites

\* both admins of company 1 demoted themselves at once, guards in force
C9_Witness ==
  \E p \in Procs : \E q \in Procs :
    /\ Raced(p, q) /\ binding = "fase9"
    /\ calls[p].op = "updateUserRole" /\ calls[q].op = "updateUserRole"
    /\ calls[p].company = C(1)

\* a createUser / updateUserRole / deleteUser call that ended in a failure
\* result or a thrown denial
Failed(p) == Finished(p, AdminOps) /\ calls[p].result # "ok"

\* C10 as stated: every failed or denied createUser, updateUserRole or
\* deleteUser call leaves the identities and the profiles as they were.
C10_AsStated ==
  \A p \in Procs :
    Failed(p) =>
      /\ authUsers = calls[p].pre.authUsers
      /\ profiles = calls[p].pre.profiles

\* C10: every failed or denied createUser, updateUserRole or deleteUser call
\* leaves the profiles, roles included, as they were; it leaves the
\* identities as they were too, except a createUser whose profile insert
\* failed and whose compensating delete failed as well: the identity
\* created by that call remains.
C10_FailureLeavesStore ==
  \A p \in Procs :
    Failed(p) =>
      /\ profiles = calls[p].pre.profiles
      /\ IF calls[p].rollback = "failed"
         THEN /\ calls[p].op = "createUser"
              /\ authUsers = calls[p].pre.authUsers \cup
                   { [id |-> calls[p].newUid, email |-> TrimmedEmail(calls[p].email)] }
         ELSE authUsers = calls[p].pre.authUsers

\* a createUser whose profile insert failed was rolled back
C10_Witness ==
  \E p \in Procs :
    /\ Failed(p) /\ calls[p].op = "createUser"
    /\ calls[p].result = "profile_failed" /\ calls[p].rollback = "done"
    /\ authUsers = calls[p].pre.authUsers
    /\ profiles = calls[p].pre.profiles

\* a createUser whose profile insert failed after the identity was created
InsertFailed(p) == Finished(p, {"createUser"}) /\ calls[p].rollback # ""

\* C11 as stated: when createUser's profile insert fails the new identity is
\* deleted in compensation, createUser returns a failure either way, and a
\* failed compensating delete is logged, never thrown or reported as another
\* outcome.
C11_AsStated ==
  \A p \in Procs :
    InsertFailed(p) =>
      /\ calls[p].result = "profile_failed"
      /\ calls[p].rollback = "done" =>
           ~(\E a \in authUsers : a.id = calls[p].newUid)
      /\ calls[p].rollback = "failed" => calls[p].logged

\* the company of the caller's profile when the call started
CallerCompanies(c) == { q.company_id : q \in { r \in c.pre.profiles : r.user_id = c.caller } }

\* C12: a successful createUser adds exactly one identity and exactly one
\* profile, bound to the new identity, to the company of the caller's
\* profile and to the requested role, and changes nothing else; a createUser
\* whose caller has no profile or no company fails and creates nothing.
C12_OneIdentityOneProfile ==
  \A p \in Procs :
    LET c == calls[p]
    IN  /\ (Finished(p, {"createUser"}) /\ c.result = "ok") =>
             /\ c.newUid \notin { a.id : a \in c.pre.authUsers }
             /\ authUsers = c.pre.authUsers \cup
                  { [id |-> c.newUid, email |-> TrimmedEmail(c.email)] }
             /\ c.pre.profiles \subseteq profiles
             /\ \E row \in profiles :
                  /\ profiles \ c.pre.profiles = { row }
                  /\ row.user_id = c.newUid
                  /\ row.role = c.role
                  /\ CallerCompanies(c) = { row.company_id }
             /\ companies = c.pre.companies
        /\ (Finished(p, {"createUser"}) /\ c.result \in {"no_account", "no_company"}) =>
             /\ authUsers = c.pre.authUsers
             /\ profiles = c.pre.profiles

\* an admin of company 1 created an admin from an address that needed
\* trimming and lower-casing
C12_Witness ==
  \E p \in Procs :
    /\ Finished(p, {"createUser"}) /\ calls[p].result = "ok"
    /\ calls[p].email = NewEmail /\ calls[p].role = ROLES.ADMIN
    /\ CallerCompanies(calls[p]) = { C(1) }
    /\ \E row \in profiles :
         row.user_id = calls[p].newUid /\ row.company_id = C(1) /\ row.role = ROLES.ADMIN

\* the members of company 1 with their roles
Roster(rows) ==
  { <<q.user_id, q.role>> : q \in { r \in rows : r.company_id = C(1) } }

ScenarioMembers == { U(1), U(2), U(3) }

\* a call of A1 that ran without a failed remote call
RanAs(p, a1, op) == Finished(p, {op}) /\ calls[p].caller = a1 /\ ~calls[p].fault

\* updateUserRole(A1, 'user')
Demotes(c, a1) ==
  /\ c.role = ROLES.USER
  /\ TargetRows(c) # {}
  /\ \A q \in TargetRows(c) : q.user_id = a1

\* the five calls of the scenario, each from the state the previous one has
\* to leave: A1, A2 admins and U1 user; then A1 admin and U1 user; then A1,
\* the new member admins and U1 user
ScenarioHolds(p, a1, a2, u1) ==
  LET c == calls[p]
      start == Roster(c.pre.profiles) =
                 { <<a1, ROLES.ADMIN>>, <<a2, ROLES.ADMIN>>, <<u1, ROLES.USER>> }
      alone == Roster(c.pre.profiles) = { <<a1, ROLES.ADMIN>>, <<u1, ROLES.USER>> }
      joined == \E n \in { a.id : a \in c.pre.authUsers } \ ScenarioMembers :
                  Roster(c.pre.profiles) =
                    { <<a1, ROLES.ADMIN>>, <<n, ROLES.ADMIN>>, <<u1, ROLES.USER>> }
  IN  /\ RanAs(p, a1, "deleteUser") /\ start /\ c.id = a2 =>
           /\ c.result = "ok"
           /\ Roster(profiles) = { <<a1, ROLES.ADMIN>>, <<u1, ROLES.USER>> }
      /\ RanAs(p, a1, "deleteUser") /\ alone /\ c.id = a1 => c.result # "ok"
      /\ RanAs(p, a1, "updateUserRole") /\ alone /\ Demotes(c, a1) =>
           c.result = "last_admin_self"
      /\ RanAs(p, a1, "createUser") /\ alone /\ c.email = NewEmail
           /\ ~(\E a \in c.pre.authUsers : a.email = TrimmedEmail(NewEmail))
           /\ c.password >= MinPasswordLength /\ c.role = ROLES.ADMIN =>
           /\ c.result = "ok"
           /\ Cardinality(AdminsIn(profiles, C(1))) = 2
      /\ RanAs(p, a1, "updateUserRole") /\ joined /\ Demotes(c, a1) =>
           c.result = "ok"

\* C13: from company C with admins A1, A2 and user U1, the calls of A1 have
\* these outcomes in order: deleteUser(A2) succeeds and A1 remains;
\* deleteUser(A1) fails; updateUserRole(A1, 'user') fails because A1 is the
\* only admin; createUser of a new admin succeeds and C has two admins;
\* updateUserRole(A1, 'user') then succeeds.
C13_AsStated ==
  \A p \in Procs : \A a1, a2, u1 \in ScenarioMembers :
    Cardinality({ a1, a2, u1 }) = 3 => ScenarioHolds(p, a1, a2, u1)

\* updateUserRole(target, r) by an admin of the target's company, r being the
\* role the target has, in a call without a failed remote call
SameRoleUpdate(p) ==
  LET c == calls[p]
  IN  /\ Finished(p, {"updateUserRole"}) /\ ~c.fault
      /\ \E a \in CallerAdminRows(c) : \E q \in TargetRows(c) :
           q.company_id = a.company_id /\ q.role = c.role

OnlyTargetRemoved(c) ==
  /\ authUsers = { a \in c.pre.authUsers : a.id # c.id }
  /\ profiles = { q \in c.pre.profiles : q.user_id # c.id }
  /\ companies = c.pre.companies

\* C15: a successful deleteUser(t) removes exactly the identity of t and its
\* profile: every other profile (the caller's too) and every company row
\* still exist afterwards, also when t owns the caller's company.
C15_AsStated ==
  \A p \in Procs :
    Finished(p, {"deleteUser"}) /\ calls[p].result = "ok" => OnlyTargetRemoved(calls[p])

\* a finished route guard call, and what its boolean check is to yield: the
\* stored role's table entry holds the permission (one of the permissions)
RouteGuardDone(p) == Finished(p, RouteOps)

RouteCheckHolds(p) ==
  LET c == calls[p]
  IN  /\ ~c.fault
      /\ \E q \in StoredProfiles(c.caller) :
           /\ q.role \in { ROLES.ADMIN, ROLES.USER }
           /\ IF c.op = "requireRoutePermission"
              THEN c.permission \in TableEntry(q.role)
              ELSE \E i \in DOMAIN c.permissions : c.permissions[i] \in TableEntry(q.role)

\* C16: requireRoutePermission(p) and requireAnyRoutePermission(ps) redirect
\* to '/dashboard' exactly when the boolean check is false and otherwise
\* return; they write to nothing and never raise the error of
\* requirePermission.
C16_RouteGuardRedirects ==
  \A p \in Procs :
    RouteGuardDone(p) =>
      LET c == calls[p]
      IN  /\ c.result = (IF RouteCheckHolds(p) THEN "return" ELSE "redirect")
          /\ c.location = (IF RouteCheckHolds(p) THEN "" ELSE "/dashboard")
          /\ c.result # "throw"
          /\ Snapshot = c.pre
          /\ c.writes = {} /\ c.audit = <<>> /\ c.reval = <<>>

\* a member with role 'user' passes a list guard holding one permission it
\* has and one it lacks
C16_Witness ==
  \E p \in Procs :
    /\ RouteGuardDone(p)
    /\ calls[p].op = "requireAnyRoutePermission"
    /\ Len(calls[p].permissions) = 2
    /\ \E q \in StoredProfiles(calls[p].caller) : q.role = ROLES.USER
    /\ calls[p].result = "return"

\* a page request of a signed-in principal, and its end in a rendered page
Requesting(p) == calls[p].op = "navigate" /\ calls[p].caller # NoUser

Rendered(p) == Finished(p, {"navigate"}) /\ calls[p].result = "rendered"

\* C17: for every authenticated principal, one without a profile included,
\* following the redirects of the pages and of the route guard ends in a
\* rendered page, as long as no remote call fails; there is no cycle of
\* redirects back to '/dashboard'.
C17_AsStated ==
  \A p \in SeqProcs : Requesting(p) ~> (Rendered(p) \/ calls[p].fault)

\* a finished direct call of ensureUserProfile
Ensured(p) == Finished(p, {"ensureUserProfile"})

\* the profile rows of the caller when the call started
OwnRowsBefore(c) == { q \in c.pre.profiles : q.user_id = c.caller }

\* what the first call is to add: one company owned by the caller and one
\* profile of the caller bound to it
CreatedPair(c) ==
  \E k \in companies \ c.pre.companies : \E q \in profiles \ c.pre.profiles :
    /\ companies = c.pre.companies \cup { k }
    /\ profiles = c.pre.profiles \cup { q }
    /\ k.owner_id = c.caller
    /\ q.user_id = c.caller /\ q.company_id = k.id
    /\ c.profileId = q.id /\ c.company = k.id

EnsureIdempotent(p) ==
  LET c == calls[p]
  IN  /\ c.caller = NoUser => c.result = "null" /\ Snapshot = c.pre
      /\ c.caller # NoUser /\ OwnRowsBefore(c) = {} /\ c.result = "created" => CreatedPair(c)
      /\ c.caller # NoUser /\ OwnRowsBefore(c) = {} /\ ~c.fault => c.result = "created"
      /\ OwnRowsBefore(c) # {} =>
           /\ Snapshot = c.pre
           /\ c.result = "existing" =>
                \E q \in OwnRowsBefore(c) : c.profileId = q.id /\ c.company = q.company_id
           /\ ~c.fault => c.result = "existing"

\* C18: when calls do not overlap, the first ensureUserProfile call of an
\* authenticated principal creates exactly one company owned by it and one
\* profile bound to that company; every later call returns that pair and
\* creates nothing; an unauthenticated call returns null and creates nothing.
C18_AsStated == \A p \in Procs : Ensured(p) => EnsureIdempotent(p)

\* two ensureUserProfile calls of one principal that had no profile when each
\* of them started, both finished, no remote call failed
RacedEnsure(p, q) ==
  /\ p # q
  /\ Ensured(p) /\ Ensured(q)
  /\ calls[p].caller = calls[q].caller /\ calls[p].caller # NoUser
  /\ OwnRowsBefore(calls[p]) = {} /\ OwnRowsBefore(calls[q]) = {}
  /\ ~calls[p].fault /\ ~calls[q].fault

OwnedCompanies(uid) == { k \in companies : k.owner_id = uid }

\* C19: ensureUserProfile has no race conditions: after two concurrent calls
\* for the same principal there is exactly one company owned by it, exactly
\* one profile of it, and no company without a profile is left behind.
C19_AsStated ==
  \A p, q \in Procs :
    RacedEnsure(p, q) =>
      /\ Cardinality(OwnedCompanies(calls[p].caller)) = 1
      /\ Cardinality(StoredProfiles(calls[p].caller)) = 1
      /\ \A k \in OwnedCompanies(calls[p].caller) :
           \E r \in profiles : r.company_id = k.id

\* C20: in every reachable state, under any interleaving of
\* ensureUserProfile, createUser, updateUserRole and deleteUser, each
\* principal has at most one profile, and that profile references exactly one
\* existing company.
C20_OneProfileOneCompany ==
  /\ \A a \in authUsers : Cardinality(StoredProfiles(a.id)) <= 1
  /\ \A r \in profiles :
       /\ \E a \in authUsers : a.id = r.user_id
       /\ Cardinality({ k \in companies : k.id = r.company_id }) = 1

\* two ensureUserProfile calls of one principal have raced: both found no
\* profile and inserted a company, and the second profile insert was refused
C20_Witness ==
  \E p, q \in Procs :
    /\ RacedEnsure(p, q)
    /\ calls[p].result = "created" /\ calls[q].result = "profile_failed"
    /\ Cardinality(OwnedCompanies(calls[p].caller)) = 2

\* a finished evaluator call on a list, the permissions the list names, and
\* the role the resolver is to yield for the caller ({} stands for NoRole)
ListEvalDone(p) == Finished(p, ListEvalOps)

Named(permissions) == { permissions[i] : i \in DOMAIN permissions }

ResolvedRoles(p) ==
  IF calls[p].fault THEN {}
  ELSE { q.role : q \in { r \in StoredProfiles(calls[p].caller) :
                            r.role \in { ROLES.ADMIN, ROLES.USER } } }

\* C21: checkAllPermissions(ps) is false for NoRole and else the conjunction
\* of the table test over ps; checkAnyPermission(ps) is false for NoRole and
\* else the disjunction; both depend only on the set of permissions ps names
\* (not on order or duplicates); requireAllPermissions(ps) throws exactly
\* when the conjunction is false.
C21_ListChecks ==
  \A p \in Procs :
    ListEvalDone(p) =>
      LET c == calls[p]
          all == \E role \in ResolvedRoles(p) : Named(c.permissions) \subseteq TableEntry(role)
          any == \E role \in ResolvedRoles(p) : Named(c.permissions) \cap TableEntry(role) # {}
      IN  /\ c.op = "checkAllPermissions" => (c.result = "true" <=> all)
          /\ c.op = "checkAllPermissions" => c.result \in { "true", "false" }
          /\ c.op = "checkAnyPermission" => (c.result = "true" <=> any)
          /\ c.op = "checkAnyPermission" => c.result \in { "true", "false" }
          /\ c.op = "requireAllPermissions" => c.result = (IF all THEN "ok" ELSE "throw")

\* a member with role 'user' is refused a three-entry list that names, with a
\* duplicate, one permission it has and one it lacks
C21_Witness ==
  \E p \in Procs :
    /\ ListEvalDone(p) /\ calls[p].op = "checkAllPermissions"
    /\ Len(calls[p].permissions) = 3
    /\ ResolvedRoles(p) = { ROLES.USER }
    /\ calls[p].result = "false"

\* the read-only family: resolver, evaluator and route guards
ReadOps == ResolverOps \cup EvalOps \cup ListEvalOps \cup RouteOps

\* C22: getUserRole, getUserWithRole, checkPermission, checkAllPermissions,
\* checkAnyPermission, requirePermission and the route guards leave the
\* companies, the profiles and the identities as they were on every call;
\* they create no profile and no company for a principal that has none.
C22_ReadOnly ==
  \A p \in Procs :
    calls[p].op \in ReadOps =>
      /\ Snapshot = calls[p].pre
      /\ calls[p].writes = {}
      /\ OwnRowsBefore(calls[p]) = {} =>
           /\ StoredProfiles(calls[p].caller) = {}
           /\ OwnedCompanies(calls[p].caller) =
                { k \in calls[p].pre.companies : k.owner_id = calls[p].caller }

\* getUserRole has answered null to an identity that has no profile, and the
\* identity still has none
C22_Witness ==
  \E p \in Procs :
    /\ Finished(p, {"getUserRole"}) /\ ~calls[p].fault
    /\ \E a \in authUsers : a.id = calls[p].caller
    /\ StoredProfiles(calls[p].caller) = {}
    /\ calls[p].result = NoRole

\* the answer of the evaluator on the profile table as it stood when the call
\* was made
GrantedOn(rows, caller, permission) ==
  \E q \in rows :
    /\ q.user_id = caller
    /\ ValidRole(q.role)
    /\ permission \in TableEntry(q.role)

EvalGranted(p) ==
  calls[p].result = (IF calls[p].op = "checkPermission" THEN "true" ELSE "ok")

\* C23: every checkPermission / requirePermission call reads the role from
\* the store at the time of that call: its result is the table entry of the
\* role stored when the call was made (denied when the profile is gone or the
\* read failed), whatever an earlier call for the same principal has seen.
C23_FreshRole ==
  \A p \in Procs :
    EvalDone(p) =>
      (EvalGranted(p) <=>
         (~calls[p].fault
            /\ GrantedOn(calls[p].pre.profiles, calls[p].caller, calls[p].permission)))

\* two calls for the same principal and permission, the role changed or the
\* profile removed between them: the earlier one was granted, the later one,
\* made after the change, is denied
C23_Witness ==
  \E p, q \in Procs :
    /\ p # q
    /\ EvalDone(p) /\ EvalDone(q)
    /\ ~calls[p].fault /\ ~calls[q].fault
    /\ calls[p].caller = calls[q].caller
    /\ calls[p].permission = calls[q].permission
    /\ calls[q].pre.profiles # calls[p].pre.profiles
    /\ calls[p].pre.profiles = profiles
    /\ EvalGranted(q) /\ EvalDenied(p)

\* the step in which updateUserRole call p commits its update of row q
RoleChangedBy(p, q) ==
  /\ calls[p].op = "updateUserRole" /\ calls[p].pc = "update"
  /\ calls[p].id = q.id
  /\ calls'[p].pc = "done" /\ calls'[p].result = "ok"

\* C24: the role of an existing profile is changed only by a successful
\* updateUserRole, and only for the profile that call targets; no step of
\* ensureUserProfile, createUser, updateUserRole or deleteUser changes the
\* company or the principal of an existing profile, or the owner of an
\* existing company.
C24_RoleAndBindingFrame ==
  [][ /\ \A q \in profiles, r \in profiles' :
           r.id = q.id =>
             /\ r.user_id = q.user_id
             /\ r.company_id = q.company_id
             /\ r.role # q.role =>
                  \E p \in Procs : RoleChangedBy(p, q) /\ r.role = calls[p].role
      /\ \A c \in companies, d \in companies' :
           d.id = c.id => d.owner_id = c.owner_id ]_vars

\* a successful updateUserRole has changed the role of its target, which
\* keeps its principal and company, while another profile of the company
\* kept its role
C24_Witness ==
  \E p \in Procs :
    /\ Finished(p, {"updateUserRole"}) /\ calls[p].result = "ok"
    /\ \E q \in calls[p].pre.profiles, r \in profiles :
         /\ r.id = q.id /\ q.id = calls[p].id
         /\ r.role = calls[p].role /\ r.role # q.role
         /\ r.user_id = q.user_id /\ r.company_id = q.company_id
         /\ \E o \in profiles :
              o.id # q.id /\ o.company_id = q.company_id /\ o \in calls[p].pre.profiles

\* the principal a finished call acted on
Affected(c) ==
  IF c.op = "createUser" THEN c.newUid
  ELSE IF c.op = "updateUserRole" THEN c.target.user_id
  ELSE c.id

\* what a call has emitted so far is what a call of its outcome may emit:
\* one audit record naming caller and affected principal and one
\* invalidation of '/admin/users' once it has succeeded, nothing otherwise
EmittedOnce(c) ==
  IF c.pc = "done" /\ c.result = "ok"
  THEN /\ Len(c.audit) = 1
       /\ c.audit[1].adminUserId = c.caller
       /\ c.audit[1].targetUserId = Affected(c)
       /\ c.reval = <<"/admin/users">>
       /\ c.writes \cap { "profile", "identity" } # {}
  ELSE c.audit = <<>> /\ c.reval = <<>>

\* C25 as stated: the audit record and the invalidation of '/admin/users' are
\* emitted exactly once per successful createUser, updateUserRole or
\* deleteUser, after the write has succeeded, and never for a failed or
\* denied call; the record names the caller as actor and the affected
\* principal as target.
C25_AsStated ==
  \A p \in Procs : calls[p].op \in AdminOps => EmittedOnce(calls[p])

\* C26 as stated: when the target of updateUserRole or deleteUser belongs to
\* another company, the caller is given the generic 'operation not permitted'
\* denial.
C26_AsStated ==
  \A p \in Procs :
    (Finished(p, MemberOps) /\ CrossTenant(calls[p])) =>
      calls[p].result = "not_permitted"

\* C26: when the target of updateUserRole or deleteUser belongs to another
\* company, the caller is given the 'user not found' failure, the one a target
\* that does not exist gets, whatever the other company, the target's role
\* and its number of admins are (the arguments having passed the validations
\* that precede every read); when a remote call failed the result is the
\* failure of that step, and never a success, the 'operation not permitted'
\* denial or a last-administrator failure.
C26_CrossTenantNotFound ==
  \A p \in Procs :
    (Finished(p, MemberOps) /\ CrossTenant(calls[p]) /\ MixCall(calls[p])) =>
      /\ ~calls[p].fault => calls[p].result = "not_found"
      /\ calls[p].result \in { "denied", "no_account", "not_found" }

\* the admin of company 2 asked to change the role of an admin of company 1,
\* a company that has another admin, and was told the user is not found
C26_Witness ==
  \E p \in Procs :
    /\ Finished(p, {"updateUserRole"}) /\ CrossTenant(calls[p])
    /\ ~calls[p].fault
    /\ calls[p].caller = U(4)
    /\ \E t \in TargetRows(calls[p]) :
         /\ t.company_id = C(1) /\ t.role = ROLES.ADMIN
         /\ Cardinality(AdminsIn(profiles, C(1))) = 2
    /\ calls[p].result = "not_found"

\* the step in which call p commits its update or its delete
Commits(p) ==
  /\ calls[p].op \in MemberOps /\ calls[p].pc \in { "update", "delete" }
  /\ calls'[p].pc = "done" /\ calls'[p].result = "ok"
  /\ <<authUsers, profiles>>' # <<authUsers, profiles>>

\* the caller is, in the store, an admin of the company of the target it read
StillManages(c) ==
  \E q \in profiles :
    /\ q.user_id = c.caller
    /\ ValidRole(q.role) /\ PERMISSIONS.USER_MANAGE \in TableEntry(q.role)
    /\ q.company_id = c.target.company_id

\* C27 as stated: under interleaving, every write committed by updateUserRole
\* or deleteUser is committed while the caller still holds USER_MANAGE and
\* still belongs to the target's company.
C27_AsStated ==
  [][ \A p \in Procs : Commits(p) => StillManages(calls[p]) ]_vars

\* C28: starting from an empty store and using only signUp / signIn,
\* ensureUserProfile, createUser, updateUserRole and deleteUser, no profile
\* ever has role admin: every profile is created with role 'user', and every
\* admin action is denied at its permission check, before any of its reads
\* and writes.
C28_NoAdminFromEmpty ==
  /\ \A q \in profiles : q.role = ROLES.USER
  /\ \A p \in Procs :
       calls[p].op \in AdminOps =>
         /\ calls[p].pc \in { "perm", "done" }
         /\ calls[p].pc = "done" => calls[p].result = "denied"

\* a principal that signed up and got its profile from ensureUserProfile asked
\* to become admin, was denied, and still has role 'user'
C28_Witness ==
  \E p \in Procs :
    /\ Finished(p, {"updateUserRole"}) /\ ~calls[p].fault
    /\ calls[p].role = ROLES.ADMIN
    /\ calls[p].result = "denied"
    /\ \E q \in profiles :
         /\ q.id = calls[p].id /\ q.user_id = calls[p].caller
         /\ q.role = ROLES.USER
         /\ \E k \in companies : k.id = q.company_id /\ k.owner_id = q.user_id

\* the otherAdmins query of call p returned an error or no row
GuardQueryFailed(p) == calls[p].guard \in { "error", "empty" }

\* C29: the admin-count guards fail closed: when the query for other admins
\* of the company returns an error or no data, updateUserRole (self-demotion
\* from admin to user) and deleteUser (admin target) return the
\* last-administrator failure and perform no update and no delete.
C29_GuardFailsClosed ==
  \A p \in Procs :
    GuardQueryFailed(p) =>
      /\ calls[p].pc = "done"
      /\ calls[p].result = (IF calls[p].op = "updateUserRole" THEN "last_admin_self"
                            ELSE "last_admin")
      /\ Snapshot = calls[p].pre
      /\ calls[p].writes = {} /\ calls[p].audit = <<>> /\ calls[p].reval = <<>>

\* deleteUser of an admin whose company has another admin: the query failed
\* and the call was refused, the target kept
C29_Witness ==
  \E p \in Procs :
    /\ calls[p].op = "deleteUser" /\ calls[p].guard = "error"
    /\ calls[p].target.role = ROLES.ADMIN
    /\ OtherAdmins(calls[p].caller, calls[p].company, calls[p].id) # {}
    /\ \E a \in authUsers : a.id = calls[p].id
    /\ calls[p].result = "last_admin"

\* deleteUser call p is at, or has been through, its last-admin check, for a
\* target other than the caller
AtLastAdminCheck(p) ==
  /\ calls[p].op = "deleteUser"
  /\ calls[p].pc = "guard" \/ calls[p].guard # ""
  /\ calls[p].id # calls[p].caller

\* C30 as stated: in executions without overlapping calls, deleteUser never
\* returns the 'last administrator' failure for a target other than the
\* caller.
C30_AsStated ==
  \A p \in Procs :
    (calls[p].op = "deleteUser" /\ calls[p].id # calls[p].caller) =>
      calls[p].result # "last_admin"

\* C30: in executions without overlapping calls, whenever deleteUser reaches
\* its last-admin check for a target other than the caller, the caller is an
\* admin of the target's company, so the query has at least one row to find:
\* it never comes back empty, and the 'last administrator' failure is
\* returned only when the query itself failed.
C30_CallerIsOtherAdmin ==
  \A p \in Procs :
    AtLastAdminCheck(p) =>
      LET c == calls[p]
      IN  /\ c.target.role = ROLES.ADMIN /\ c.target.company_id = c.company
          /\ \E q \in c.pre.profiles :
               /\ q.user_id = c.caller /\ q.user_id # c.id
               /\ q.role = ROLES.ADMIN /\ q.company_id = c.company
          /\ c.guard # "empty"
          /\ c.result = "last_admin" => c.guard = "error"

\* an admin deleted the other admin of its company: the query found the
\* caller and let the delete through
C30_Witness ==
  \E p \in Procs :
    /\ AtLastAdminCheck(p) /\ calls[p].guard = "passed"
    /\ Finished(p, {"deleteUser"}) /\ calls[p].result = "ok"
    /\ ~calls[p].fault
    /\ AdminsIn(calls[p].pre.profiles, calls[p].company)
         = { q \in calls[p].pre.profiles : q.user_id \in { calls[p].caller, calls[p].id } }
    /\ Cardinality(AdminsIn(calls[p].pre.profiles, calls[p].company)) = 2

====
